---- MODULE Spec2Model ----
(***************************************************************************)
(* Two dispatcher Connections wired back to back over an ordered           *)
(* transport: the calling side (a Client issuing call_sync) and the        *)
(* serving side (a Connection with an RpcContext bound).  The model covers *)
(* the pending-call table, the pending-iterator table and the pull-based   *)
(* streaming protocol of freenas/dispatcher/client.py.                     *)
(***************************************************************************)
EXTENDS Integers, Sequences, FiniteSets, Bags, TLC

\* ------------------------------------------------------------------ bounds
NumCalls == 3      \* caller threads, each issuing at most one call_sync
MaxLen == 3        \* fragments a source iterator produces at most
MaxChunk == 2      \* values one fragment carries at most
MaxLookups == 2    \* __getitem__ invocations on one StreamingResultView
MaxStops == 2      \* StopIterations one StreamingResultIterator raises at most
MaxEvents == 2     \* events the peer emits at most
MaxSubs == 2       \* subscribe_events / unsubscribe_events calls of the application
MaxDepth == 2      \* nesting of dicts and lists in an args tree
MaxWidth == 2      \* items of one dict or list in an args tree
NumConns == 2      \* connections a Server accepts at most
MaxBroadcasts == 1 \* broadcast_event calls on the Server
MaxLimit == 2      \* call_queue_limit at most
MaxServerCalls == 2
MaxContinues == 3
MaxPipelined == 2
MaxInvalid == 2     \* invalid messages and their answers in flight at most
NumLookers == 2     \* threads that look up one view at the same time
MaxStream == 5 \* calls of its own the serving side has pending at most

Callers == 1..NumCalls
Lookers == 1..NumLookers

\* A thread in StreamingResultView.__getitem__: where it is, and the seqno
\* its call_continue waits for.
Looker(pc, seqno) == [pc |-> pc, seqno |-> seqno]

\* The view every looker has in hand is the result of the first caller.
Viewed == 1

\* ------------------------------------------------------------- JSON values
\* Python's None, as a stream value and as the queue's end sentinel.
None == "None"

JNone == [tag |-> "None", s |-> "", l |-> <<>>]
JStr(x) == [tag |-> "str", s |-> x, l |-> <<>>]
JList(q) == [tag |-> "list", s |-> "", l |-> q]
StreamingResultIterator == [tag |-> "StreamingResultIterator", s |-> "", l |-> <<>>]
StreamingResultView == [tag |-> "StreamingResultView", s |-> "", l |-> <<>>]

NoError == [code |-> "None", message |-> "", extra |-> None]
RpcError(code, message, extra) ==
    [code |-> code, message |-> message, extra |-> extra]

RECURSIVE Flatten(_)
Flatten(chunks) ==
    IF chunks = <<>> THEN <<>> ELSE Head(chunks) \o Flatten(Tail(chunks))

\* ------------------------------------------------------- file descriptors
\* An args tree: a string, a FileDescriptor on an open file, a list or a dict
\* of trees (its values in insertion order), None, and the dict {"$fd": i}.
TStr == [tag |-> "str"]
TNone == [tag |-> "None"]
FileDescriptor(file) == [tag |-> "FileDescriptor", fd |-> file]
Placeholder(i) == [tag |-> "$fd", i |-> i]
TList(items) == [tag |-> "list", l |-> items]
TDict(items) == [tag |-> "dict", l |-> items]

\* The open files a descriptor may refer to.
Files == {"a", "b"}

RECURSIVE TSeqs(_, _)
TSeqs(S, n) ==
    IF n = 0 THEN {<<>>}
    ELSE LET shorter == TSeqs(S, n - 1)
         IN shorter \cup {Append(q, x) : q \in {r \in shorter : Len(r) = n - 1},
                                          x \in S}

\* The args trees nested at most d deep.
RECURSIVE Trees(_)
Trees(d) ==
    LET leaves == {TStr} \cup {FileDescriptor(f) : f \in Files}
    IN IF d = 0 THEN leaves
       ELSE LET items == TSeqs(Trees(d - 1), MaxWidth)
            IN leaves \cup {TList(q) : q \in items} \cup {TDict(q) : q \in items}

\* The FileDescriptors of a tree, in the order a depth-first walk meets them.
RECURSIVE Descriptors(_), DescriptorsOf(_)
DescriptorsOf(items) ==
    IF items = <<>> THEN <<>>
    ELSE Descriptors(Head(items)) \o DescriptorsOf(Tail(items))
Descriptors(obj) ==
    IF obj.tag = "FileDescriptor" THEN <<obj>>
    ELSE IF obj.tag \in {"list", "dict"} THEN DescriptorsOf(obj.l)
    ELSE <<>>

\* UnixChannelSerializer.collect_fds(obj, start): the loop over the items of
\* a dict or a list.  idx counts the descriptors met in this loop; a nested
\* call starts at idx and what it counts stays its own.
RECURSIVE collect_fds(_, _), collect_items(_, _)
collect_items(items, idx) ==
    IF items = <<>>
    THEN [l |-> <<>>, fds |-> <<>>]
    ELSE LET o == Head(items)
         IN IF o.tag = "FileDescriptor"
            THEN LET rest == collect_items(Tail(items), idx + 1)
                 IN [l |-> <<Placeholder(idx)>> \o rest.l,
                     fds |-> <<o>> \o rest.fds]
            ELSE LET nested == collect_fds(o, idx)
                     rest == collect_items(Tail(items), idx)
                 IN [l |-> <<nested.obj>> \o rest.l,
                     fds |-> nested.fds \o rest.fds]

collect_fds(obj, start) ==
    IF obj.tag \in {"list", "dict"}
    THEN LET r == collect_items(obj.l, start)
         IN [obj |-> [obj EXCEPT !.l = r.l], fds |-> r.fds]
    ELSE [obj |-> obj, fds |-> <<>>]

\* UnixChannelSerializer.replace_fds(obj, fds); fds[i] of the code is
\* fds[i + 1] here.
RECURSIVE replace_fds(_, _), replace_items(_, _)
replace_items(items, fds) ==
    IF items = <<>> THEN <<>>
    ELSE LET o == Head(items)
         IN <<IF o.tag = "$fd"
              THEN IF o.i < Len(fds) THEN FileDescriptor(fds[o.i + 1]) ELSE TNone
              ELSE replace_fds(o, fds)>> \o replace_items(Tail(items), fds)

replace_fds(obj, fds) ==
    IF obj.tag \in {"list", "dict"}
    THEN [obj EXCEPT !.l = replace_items(obj.l, fds)]
    ELSE obj

\* ------------------------------------------------------------------ events
\* Event names and masks, as the sequences of their parts; "*" stands for any
\* run of parts and "?" for any one part, as in fnmatch.
ServerStarted == <<"server", ".", "started">>
ClientPing == <<"client", ".", "ping">>
ServerAll == <<"server", ".", "*">>

EventNames == {ServerStarted, ClientPing}
Masks == {ServerAll, ServerStarted, ClientPing}

\* fnmatch.fnmatch(name, pat)
RECURSIVE fnmatch(_, _)
fnmatch(name, pat) ==
    IF pat = <<>>
    THEN name = <<>>
    ELSE IF Head(pat) = "*"
         THEN \/ fnmatch(name, Tail(pat))
              \/ name # <<>> /\ fnmatch(Tail(name), pat)
         ELSE /\ name # <<>>
              /\ Head(pat) \in {"?", Head(name)}
              /\ fnmatch(Tail(name), Tail(pat))

\* The mutant: a mask matches the name equal to it.
match_event_exact(name, pat) == name = pat

\* server.match_event, for a mask that is a string
match_event(name, pat) == fnmatch(name, pat)

\* An event: its name and, for its args, its number among those emitted.
Event(name, n) == [name |-> name, n |-> n]

\* event_queue.put(StopIteration): the termination sentinel in the queue
StopIterationItem == Event(<<"StopIteration">>, 0)

\* The thread that runs on_close: where it is.
Closer(pc) == [pc |-> pc]
NotClosing == Closer("none")

\* The handlers: one marked sync, one run on the worker pool, and the one
\* exec_and_wait_for_event registers.
Handlers == {"h_sync", "h_pool", "handler"}
IsSync(h) == h = "h_sync"

\* --------------------------------------------------------- the test service
\* TestService.hello
Hello(arg) ==
    CASE arg = "freenas" -> "Hello World, freenas"
      [] arg = "corral" -> "Hello World, corral"
      [] OTHER -> "Hello World, nas"

ArgOf(c) ==
    CASE c = 1 -> "freenas"
      [] c = 2 -> "corral"
      [] OTHER -> "nas"

\* TestService.iterator: the i-th value (from 0) of (i * 2 for i in range(count))
IteratorValue(i) == ToString(2 * i)

\* A source of n fragments of w values each; the z-th value overall (z = 0: none)
\* is None.
Source(n, w, z) ==
    [f \in 1..n |->
        [j \in 1..w |->
            LET i == (f - 1) * w + j
            IN IF i = z THEN None ELSE IteratorValue(i - 1)]]

Sources ==
    {Source(n, w, z) : n \in 0..MaxLen, w \in 1..MaxChunk, z \in 0..1}
    \cup {Source(n, w, n * w) : n \in 1..MaxLen, w \in 1..MaxChunk}

\* A view caches whole fragments, whatever they carry: one value each.
ViewSources == {Source(n, 1, 0) : n \in 0..MaxLen}

NoSource == <<>>

Request(method, arg, src, view) ==
    [method |-> method, arg |-> arg, src |-> src, view |-> view]

\* A caller thread that never calls.
NoRequest == Request("", "", NoSource, FALSE)

\* The plain calls of caller c: test.hello, and for the first two callers a
\* method that is not registered.
PlainRequestsOf(c) ==
    {Request("test.hello", ArgOf(c), NoSource, FALSE)}
    \cup (IF c <= 2
          THEN {Request("test.missing", ArgOf(c), NoSource, FALSE)}
          ELSE {})

\* The streaming scenario: the first caller asks for a plain method or for a
\* sequence, as an iterator or as a view, a second caller for a plain method
\* at the same time, the others for nothing.
RequestsOf(c) ==
    CASE c = 1 ->
            PlainRequestsOf(c)
            \cup {Request("test.iterator", "", src, FALSE) : src \in Sources}
            \cup {Request("test.iterator", "", src, TRUE) : src \in ViewSources}
      [] c = 2 -> PlainRequestsOf(c)
      [] OTHER -> {NoRequest}

\* The three logins, one per caller; the check_password and resource
\* arguments of login_user only travel in the payload.
Logins == <<"login_user", "login_service", "login_token">>
LoginRequestsOf(c) ==
    IF c <= Len(Logins)
    THEN {Request(Logins[c], ArgOf(c), NoSource, FALSE)}
    ELSE {NoRequest}

\* One caller asks for a sequence, as an iterator or as a view.
StreamRequestsOf(c) ==
    IF c = 1
    THEN {Request("test.iterator", "", src, FALSE) : src \in Sources}
         \cup {Request("test.iterator", "", src, TRUE) : src \in ViewSources}
    ELSE {NoRequest}

\* What call_async is given: a plain method or a sequence for the first
\* caller, a plain method for the second; a PendingCall of call_async is
\* never a view.
AsyncRequestsOf(c) ==
    CASE c = 1 ->
            PlainRequestsOf(c)
            \cup {Request("test.iterator", "", src, FALSE) : src \in Sources}
      [] c = 2 -> PlainRequestsOf(c)
      [] OTHER -> {NoRequest}

\* Two callers of test.hello, the others silent.
HelloRequestsOf(c) ==
    IF c <= 2
    THEN {Request("test.hello", ArgOf(c), NoSource, FALSE)}
    ELSE {NoRequest}

\* RpcContext.dispatch_call: a value, a lazy sequence or an RpcException.
dispatch_call(request, streaming_enabled) ==
    CASE request.method = "test.hello" ->
            [kind |-> "value", value |-> JStr(Hello(request.arg)),
             src |-> NoSource, error |-> NoError]
      [] request.method = "test.iterator" ->
            IF streaming_enabled
            THEN [kind |-> "stream", value |-> JNone,
                  src |-> request.src, error |-> NoError]
            ELSE [kind |-> "value", value |-> JList(Flatten(request.src)),
                  src |-> NoSource, error |-> NoError]
      [] OTHER ->
            [kind |-> "error", value |-> JNone, src |-> NoSource,
             error |-> RpcError("ENOENT", "Method not found", None)]

\* ------------------------------------------------------------------- state
VARIABLES
    streaming,          \* serving Connection.streaming
    request,            \* what each caller asks for
    cpc,                \* each caller's position
    call,               \* the PendingCall object each caller created
    pending_calls,      \* calling Connection.pending_calls: key -> PendingCall
    next_uuid,          \* uuid.uuid4(): ids handed out so far
    ret,                \* what call_sync returned or raised, per caller
    yielded,            \* values __next__ returned, per caller
    stops,              \* StopIterations __next__ raised, per caller
    errors,             \* the invocations of error_callback so far, a bag
    lookups,            \* finished __getitem__ invocations, per caller
    target,             \* the seqno a caller blocked in call_continue waits for
    receive_thread,     \* the calling side's transport receive thread
    to_server,          \* frames in flight, calling side -> serving side
    to_client,          \* frames in flight, serving side -> calling side
    pending_iterators,  \* serving Connection.pending_iterators: its keys
    iterators,          \* the PendingIterator objects, by call id
    workers,            \* run_async tasks spawned on the serving side
    spawned,            \* tasks spawned so far, per call id
    sent,               \* the frames the serving side has sent, per call id
    continues,          \* the seqnos of the continues it has received, per call id
    transport,          \* the calling side's transport: its kind and its state
    upcalls,            \* on_open, on_close and drop_pending_calls invocations
    dropping,           \* a drop_pending_calls under way: the keys it iterates
    outage,             \* why the transport went down, and the calls pending then
    event_masks,        \* ServerConnection.event_masks of the emitting peer
    subs,               \* subscribe / unsubscribe frames in flight to the peer
    nsubs,              \* subscribe_events / unsubscribe_events calls so far
    events,             \* event and event_burst frames in flight from the peer
    emitted,            \* the emit_event calls of the peer, in order
    event_queue,        \* Connection.event_queue of the recipient
    event_thread,       \* the recipient's __process_events thread
    event_handlers,     \* Connection.event_handlers: name -> list of handlers
    pool,               \* handler invocations spawned on the worker pool
    handled,            \* the events each handler has been invoked with, in order
    waiter,             \* the thread in exec_and_wait_for_event
    pack_args,          \* the args tree handed to Connection.pack
    packed,             \* what pack made of it: the tree sent and the fds
    unpacked,           \* the tree on_message hands on after replace_fds
    token,              \* Connection.token of the calling side
    connections,        \* Server.connections
    conn_state,         \* each ServerConnection of the server: new, open, closed
    conn_masks,         \* each ServerConnection's event_masks
    conn_sent,          \* the events each ServerConnection has sent to its peer
    broadcast,          \* the thread in Server.broadcast_event
    call_queue_limit,   \* Connection.call_queue_limit of the serving side; 0 for None
    server_calls,       \* len(pending_calls) of the serving side: its own calls
    chunk_tasks,        \* run_async tasks of on_rpc_continue that are inside request_chunk
    it_lock,            \* PendingIterator.lock of each call id: the task holding it, 0 when free
    rlock,              \* Connection.rlock of the calling side: the thread holding it, Nobody when free
    accessing,          \* what each thread of the calling side is doing to pending_calls right now
    wire,               \* the words of the byte stream the receive loop has not read yet
    rx,                 \* the receive loop: its transport, its position, what it has read and delivered
    closer,             \* the thread in on_close: its position
    callback,           \* PendingCall.callback of each caller: set by call_async
    invoked,            \* the invocations of each callback, in order
    sender_closed,      \* on_close of the serving Connection has run
    lookers             \* the threads in __getitem__ of one StreamingResultView

vars == <<streaming, request, cpc, call, pending_calls, next_uuid, ret, yielded,
          stops, errors, lookups, target, receive_thread, to_server, to_client,
          pending_iterators, iterators, workers, spawned, sent, continues,
          transport, upcalls, dropping, outage, event_masks, subs, nsubs,
          events, emitted, event_queue, event_thread, event_handlers, pool,
          handled, waiter, pack_args, packed, unpacked, token,
          connections, conn_state, conn_masks, conn_sent, broadcast,
          call_queue_limit, server_calls,
          chunk_tasks, it_lock,
          rlock, accessing,
          wire, rx,
          closer,
          callback, invoked,
          sender_closed,
          lookers>>

fdVars == <<pack_args, packed, unpacked>>
authVars == <<token>>
srvVars == <<connections, conn_state, conn_masks, conn_sent, broadcast>>
limitVars == <<call_queue_limit, server_calls>>
poolVars == <<chunk_tasks, it_lock>>
lockVars == <<rlock, accessing>>
frameVars == <<wire, rx>>
stopVars == <<closer>>
asyncVars == <<callback, invoked>>
goneVars == <<sender_closed>>
lookVars == <<lookers>>
extVars == <<fdVars, authVars, srvVars, limitVars, poolVars, lockVars, frameVars, stopVars, asyncVars, goneVars, lookVars>>
\* extVars without the variables of one part
notAuthVars == <<fdVars, srvVars, limitVars, poolVars, lockVars, frameVars, stopVars, asyncVars, goneVars, lookVars>>
notFdVars == <<authVars, srvVars, limitVars, poolVars, lockVars, frameVars, stopVars, asyncVars, goneVars, lookVars>>
notSrvVars == <<fdVars, authVars, limitVars, poolVars, lockVars, frameVars, stopVars, asyncVars, goneVars, lookVars>>
notLimitVars == <<fdVars, authVars, srvVars, poolVars, lockVars, frameVars, stopVars, asyncVars, goneVars, lookVars>>
notPoolVars == <<fdVars, authVars, srvVars, limitVars, lockVars, frameVars, stopVars, asyncVars, goneVars, lookVars>>
notLockVars == <<fdVars, authVars, srvVars, limitVars, poolVars, frameVars, stopVars, asyncVars, goneVars, lookVars>>
notFrameVars == <<fdVars, authVars, srvVars, limitVars, poolVars, lockVars, stopVars, asyncVars, goneVars, lookVars>>
notStopVars == <<fdVars, authVars, srvVars, limitVars, poolVars, lockVars, frameVars, asyncVars, goneVars, lookVars>>
notAsyncVars == <<fdVars, authVars, srvVars, limitVars, poolVars, lockVars, frameVars, stopVars, goneVars, lookVars>>
notGoneVars == <<fdVars, authVars, srvVars, limitVars, poolVars, lockVars, frameVars, stopVars, asyncVars, lookVars>>
notLookVars == <<fdVars, authVars, srvVars, limitVars, poolVars, lockVars, frameVars, stopVars, asyncVars, goneVars>>

transportVars == <<transport, upcalls, dropping, outage>>

senderVars == <<event_masks, emitted>>
recipientVars == <<event_queue, event_handlers, pool, handled>>
eventVars == <<senderVars, subs, nsubs, events, recipientVars, event_thread,
               waiter>>

clientVars == <<cpc, call, pending_calls, next_uuid, ret, yielded, stops, errors,
                lookups,
                target, receive_thread>>
serverVars == <<pending_iterators, iterators, workers, spawned, continues>>
rpcVars == <<streaming, request, clientVars, to_server, to_client, serverVars,
             sent, transportVars>>

Ids == 1..NumCalls

\* ------------------------------------------------------------ frame headers
\* struct.pack('II', 0xdeadbeef, len(message)): a header is two 32-bit words,
\* the magic and the length; the stream is modelled word by word, lengths
\* counting words.  A word is its two 16-bit halves, high and low.
Word(hi, lo) == <<hi, lo>>
Magic == Word(57005, 48879)
\* 0xbadbeef0, which the ssh transport takes for a refusal
Denied == Word(47835, 61168)
Words == {Magic, Denied, Word(0, 0), Word(0, 1)}
HeaderLen == 2

\* What a read of as many words as the word says returns, with avail words
\* left in the stream.
ReadLen(w, avail) ==
    IF w[1] > 0 \/ w[2] > avail THEN avail ELSE w[2]

\* The streams of at most n words.
RECURSIVE WordStreams(_)
WordStreams(n) ==
    IF n = 0 THEN {<<>>}
    ELSE LET shorter == WordStreams(n - 1)
         IN shorter
            \cup {Append(st, w) : st \in {x \in shorter : Len(x) = n - 1},
                                  w \in Words}

\* The receive loops: ClientTransportSSH.recv, ClientTransportFD.recv,
\* ClientTransportUnix.recv and UnixSocketHandler.handle_connection.
Receivers == {"ssh", "fd", "unix", "unix_server"}

\* bad: a header with a wrong magic has been read; headers, late: the headers
\* read and the messages delivered after that one.
Receiver(kind) ==
    [kind |-> kind, state |-> "running", bad |-> FALSE, headers |-> 0,
     delivered |-> <<>>, late |-> 0]

NoReceiver == Receiver("")

\* The threads of the calling side: its callers and the receive thread.
ReceiveThread == 0
Nobody == NumCalls + 1
Threads == Callers \cup {ReceiveThread}

\* An id under which this connection has no call: what a frame that answers
\* nothing carries.
StrayId == NumCalls + 1

\* ---------------------------------------------------------------- messages
Message(name, id, seqno, args, error, req) ==
    [name |-> name, id |-> id, seqno |-> seqno, args |-> args,
     error |-> error, req |-> req]

send_call(id, req) == Message("call", id, 0, JNone, NoError, req)
send_continue(id, seqno) == Message("continue", id, seqno, JNone, NoError, NoRequest)
send_abort(id) == Message("abort", id, 0, JNone, NoError, NoRequest)
send_response(id, resp) == Message("response", id, 0, resp, NoError, NoRequest)
send_fragment(id, seqno, fragment) ==
    Message("fragment", id, seqno, fragment, NoError, NoRequest)
send_end(id, seqno) == Message("end", id, seqno, JNone, NoError, NoRequest)
send_close(id) == Message("close", id, 0, JNone, NoError, NoRequest)
\* Connection.call(pending_call, call_type, custom_payload)
send_auth(call_type, id, req) == Message(call_type, id, 0, JNone, NoError, req)
send_error(id, code, msg, extra) ==
    Message("error", id, 0, JNone, RpcError(code, msg, extra), NoRequest)

\* ------------------------------------------------------------- PendingCall
NoCall ==
    [id |-> 0, view |-> FALSE, closed |-> FALSE, result |-> JNone,
     error |-> NoError, ready |-> FALSE, queue |-> <<>>, seqno |-> 0,
     cache |-> <<>>]

PendingCall(id, view) == [NoCall EXCEPT !.id = id, !.view = view]

\* d[key] = value on a dict
DictSet(d, key, value) ==
    [k \in DOMAIN d \cup {key} |-> IF k = key THEN value ELSE d[k]]

\* del d[key]
DictDel(d, key) == [k \in DOMAIN d \ {key} |-> d[k]]

NoReturn == [how |-> "pending", value |-> JNone, error |-> NoError]
Returned(v) == [how |-> "returned", value |-> v, error |-> NoError]
Raised(kind, err) == [how |-> kind, value |-> JNone, error |-> err]

\* rpc.RpcException(obj=call.error)
RpcException(obj) == Raised("RpcException", obj)

\* An invocation of error_callback: the ClientError and the arguments that
\* come with it.
ClientError(kind, id, method, arg) ==
    [kind |-> kind, id |-> id, method |-> method, arg |-> arg]

RPC_CALL_TIMEOUT(req) == ClientError("RPC_CALL_TIMEOUT", 0, req.method, req.arg)
RPC_CALL_ERROR == ClientError("RPC_CALL_ERROR", 0, "", "")
SPURIOUS_RPC_RESPONSE(id) == ClientError("SPURIOUS_RPC_RESPONSE", id, "", "")

\* self.error_callback(...), with a callback set
error_callback(e) == errors' = errors (+) SetToBag({e})

\* ---------------------------------------------------------- PendingIterator
PendingIterator(src, view) ==
    [src |-> src, pos |-> 0, state |-> "open", seqno |-> 0, view |-> view,
     cache |-> <<>>]

NoIterator == PendingIterator(NoSource, FALSE)

\* PendingIterator.advance: the next value of the source, or StopIteration
\* carrying seqno + 1.
advance(it) ==
    IF it.state = "open" /\ it.pos < Len(it.src)
    THEN LET val == it.src[it.pos + 1]
             nseq == it.seqno + 1
         IN [stop |-> FALSE, val |-> val, seqno |-> nseq,
             it |-> [it EXCEPT !.pos = it.pos + 1,
                               !.seqno = nseq,
                               !.cache = IF it.view
                                         THEN DictSet(it.cache, nseq, val)
                                         ELSE it.cache]]
    ELSE [stop |-> TRUE, val |-> <<>>, seqno |-> it.seqno + 1,
          it |-> [it EXCEPT !.state = IF it.state = "open"
                                      THEN "exhausted" ELSE it.state]]

\* the while loop of request_chunk
RECURSIVE request_chunk_loop(_, _)
request_chunk_loop(it, seqno) ==
    IF it.seqno < seqno
    THEN LET a == advance(it)
         IN IF a.stop
            THEN [how |-> "stop", val |-> <<>>, it |-> a.it]
            ELSE IF a.it.seqno = seqno
                 THEN [how |-> "value", val |-> a.val, it |-> a.it]
                 ELSE request_chunk_loop(a.it, seqno)
    ELSE [how |-> "none", val |-> <<>>, it |-> it]

\* PendingIterator.request_chunk
request_chunk(it, seqno) ==
    IF seqno \in DOMAIN it.cache
    THEN [how |-> "value", val |-> it.cache[seqno], it |-> it]
    ELSE request_chunk_loop(it, seqno)

\* -------------------------------------------------------------------- Init
\* What the first n callers ask for, one request each.
RECURSIVE Requests(_, _)
Requests(n, which) ==
    IF n = 0
    THEN {<<>>}
    ELSE {Append(r, q) :
            r \in Requests(n - 1, which),
            q \in CASE which = "plain" -> PlainRequestsOf(n)
                    [] which = "none" -> {NoRequest}
                    [] which = "login" -> LoginRequestsOf(n)
                    [] which = "hello" -> HelloRequestsOf(n)
                    [] which = "async" -> AsyncRequestsOf(n)
                    [] which = "stream" -> StreamRequestsOf(n)
                    [] OTHER -> RequestsOf(n)}

Start ==
    /\ streaming \in BOOLEAN
    /\ cpc = [c \in Callers |-> "idle"]
    /\ call = [c \in Callers |-> NoCall]
    /\ pending_calls = <<>>
    /\ next_uuid = 0
    /\ ret = [c \in Callers |-> NoReturn]
    /\ yielded = [c \in Callers |-> <<>>]
    /\ stops = [c \in Callers |-> 0]
    /\ errors = EmptyBag
    /\ lookups = [c \in Callers |-> <<>>]
    /\ target = [c \in Callers |-> 0]
    /\ receive_thread = "running"
    /\ to_server = <<>>
    /\ to_client = <<>>
    /\ pending_iterators = {}
    /\ iterators = [i \in Ids |-> NoIterator]
    /\ workers = {}
    /\ spawned = [i \in Ids |-> 0]
    /\ sent = [i \in Ids \cup {StrayId} |-> <<>>]
    /\ continues = [i \in Ids |-> <<>>]

\* No event has been emitted, no handler registered; the event thread is
\* started by on_open.
NoEvents ==
    /\ event_masks = {}
    /\ subs = <<>>
    /\ nsubs = 0
    /\ events = <<>>
    /\ emitted = <<>>
    /\ event_queue = <<>>
    /\ event_thread = [state |-> "none", ev |-> Event(<<>>, 0)]
    /\ event_handlers = [n \in EventNames |-> <<>>]
    /\ pool = {}
    /\ handled = [h \in Handlers |-> <<>>]
    /\ waiter = [pc |-> "start", how |-> "", done |-> FALSE]

\* Nothing has been packed.
NotPacked == [obj |-> TNone, fds |-> <<>>, done |-> FALSE]
NoFds ==
    /\ pack_args = TNone
    /\ packed = NotPacked
    /\ unpacked = NotPacked

\* Connection.__init__: self.token = None
NoToken == token = JNone

\* Server.__init__: no connection yet.  on_connection makes each
\* ServerConnection, its event_masks empty.
Conns == 1..NumConns
NotBroadcasting ==
    [pc |-> "idle", i |-> 0, name |-> <<>>, n |-> 0, stable |-> {},
     delegated |-> {}]
NoServer ==
    /\ connections = <<>>
    /\ conn_state = [k \in Conns |-> "new"]
    /\ conn_masks = [k \in Conns |-> {}]
    /\ conn_sent = [k \in Conns |-> <<>>]
    /\ broadcast = NotBroadcasting

\* Connection.__init__: call_queue_limit = None, pending_calls = {}
NoLimit ==
    /\ call_queue_limit = 0
    /\ server_calls = 0

NoPool ==
    /\ chunk_tasks = {}
    /\ it_lock = [i \in Ids |-> 0]

NoLock ==
    /\ rlock = Nobody
    /\ accessing = [t \in Threads |-> "none"]

NoFrames ==
    /\ wire = <<>>
    /\ rx = NoReceiver

NoStop ==
    /\ closer = NotClosing

NoCallbacks ==
    /\ callback = [c \in Callers |-> FALSE]
    /\ invoked = [c \in Callers |-> <<>>]

NoGone ==
    /\ sender_closed = FALSE

NoLookers ==
    /\ lookers = [t \in Lookers |-> Looker("idle", 0)]

NoExt == NoFds /\ NoToken /\ NoServer /\ NoLimit /\ NoPool /\ NoLock /\ NoFrames /\ NoStop /\ NoCallbacks /\ NoGone /\ NoLookers

\* The transport variants: the four client transports, and the handler of the
\* unix server transport under a ServerConnection.
Transports == {"ws", "ssh", "fd", "unix", "unix_server"}

Transport(kind, link) == [kind |-> kind, link |-> link, terminated |-> FALSE]

NoUpcalls == [on_open |-> 0, on_close |-> 0, drops |-> 0]
NotDropping == [active |-> FALSE, keys |-> {}]
NotStopped == [why |-> "", pending |-> {}]

\* A transport of the given kind, not connected yet.
Unconnected(kinds) ==
    /\ transport \in {Transport(k, "new") : k \in kinds}
    /\ upcalls = NoUpcalls
    /\ dropping = NotDropping
    /\ outage = NotStopped

\* Two Connections back to back, the transport up.
Connected ==
    /\ transport = Transport("fd", "up")
    /\ upcalls = NoUpcalls
    /\ dropping = NotDropping
    /\ outage = NotStopped

\* One streaming call and one plain call.
Init == Start /\ Connected /\ NoEvents /\ NoExt /\ request \in Requests(NumCalls, "any")

\* Plain calls only, from every caller; they are answered alike whether
\* streaming is enabled or not.
InitCalls ==
    /\ Start /\ Connected /\ NoEvents /\ NoExt
    /\ ~streaming
    /\ request \in Requests(NumCalls, "plain")

\* Two plain calls over a transport of any kind, from its connect on.
InitClose ==
    /\ Start /\ Unconnected(Transports) /\ NoEvents /\ NoExt
    /\ request \in Requests(NumCalls, "hello")

\* A receive loop at its start, with any stream of words ahead of it.
InitFrames ==
    /\ Start /\ Connected /\ NoEvents
    /\ NoFds /\ NoToken /\ NoServer /\ NoLimit /\ NoPool /\ NoLock /\ NoStop /\ NoCallbacks /\ NoGone /\ NoLookers
    /\ ~streaming
    /\ request \in Requests(NumCalls, "none")
    /\ wire \in WordStreams(MaxStream)
    /\ rx \in {Receiver(kind) : kind \in Receivers}

\* Two callers of test.hello on one connection.
InitLock ==
    /\ Start /\ Connected /\ NoEvents /\ NoExt
    /\ ~streaming
    /\ request \in Requests(NumCalls, "hello")

\* One streamed call, served with streaming enabled.
\* Calls made with call_async, and with call_sync beside them.
InitAsync ==
    /\ Start /\ Connected /\ NoEvents /\ NoExt
    /\ request \in Requests(NumCalls, "async")

\* One streamed call, as an iterator or as a view, over a ws transport.
InitStreamClose ==
    /\ Start /\ Unconnected({"ws"}) /\ NoEvents /\ NoExt
    /\ streaming
    /\ request \in Requests(NumCalls, "stream")

\* One call in view mode.
InitLookers ==
    /\ Start /\ Connected /\ NoEvents /\ NoExt
    /\ streaming
    /\ request \in Requests(NumCalls, "stream")
    /\ request[Viewed].view

InitChunk ==
    /\ Start /\ Connected /\ NoEvents /\ NoExt
    /\ streaming
    /\ request \in Requests(NumCalls, "stream")

\* ------------------------------------------------------ calling side: callers
ToServer(m) == to_server' = Append(to_server, m)

\* Connection.call_sync up to the wait: a fresh id, the PendingCall installed
\* under it, the call frame sent.
call_sync(c) ==
    /\ UNCHANGED <<eventVars, extVars>>
    /\ cpc[c] = "idle"
    /\ request[c] # NoRequest
    /\ transport.link = "up"
    /\ LET id == next_uuid + 1
       IN /\ next_uuid' = id
          /\ call' = [call EXCEPT ![c] = PendingCall(id, request[c].view)]
          /\ pending_calls' = DictSet(pending_calls, id, c)
          /\ ToServer(send_call(id, request[c]))
    /\ cpc' = [cpc EXCEPT ![c] = "wait"]
    /\ UNCHANGED <<streaming, request, transportVars, errors, stops, ret, yielded, lookups, target,
                   receive_thread, to_client, serverVars, sent>>

\* Connection.call_async: the PendingCall with its callback installed under
\* a fresh id, the call frame sent; nothing is waited for.
call_async(c) ==
    /\ cpc[c] = "idle"
    /\ request[c] # NoRequest
    /\ transport.link = "up"
    /\ LET id == next_uuid + 1
       IN /\ next_uuid' = id
          /\ call' = [call EXCEPT ![c] = PendingCall(id, FALSE)]
          /\ pending_calls' = DictSet(pending_calls, id, c)
          /\ ToServer(send_call(id, request[c]))
    /\ callback' = [callback EXCEPT ![c] = TRUE]
    /\ cpc' = [cpc EXCEPT ![c] = "async"]
    /\ UNCHANGED <<streaming, request, transportVars, errors, stops, ret,
                   yielded, lookups, target, receive_thread, to_client,
                   serverVars, sent, invoked, eventVars, notAsyncVars>>

\* The frame name of each login.
AuthType(method) ==
    CASE method = "login_user" -> "auth"
      [] method = "login_service" -> "auth_service"
      [] method = "login_token" -> "auth_token"

\* login_user, login_service, login_token up to the send: a PendingCall under
\* a fresh id, one frame of the login's type.
login(c) ==
    /\ cpc[c] = "idle"
    /\ request[c] # NoRequest
    /\ transport.link = "up"
    /\ LET id == next_uuid + 1
       IN /\ next_uuid' = id
          /\ call' = [call EXCEPT ![c] = PendingCall(id, FALSE)]
          /\ pending_calls' = DictSet(pending_calls, id, c)
          /\ ToServer(send_auth(AuthType(request[c].method), id, request[c]))
    /\ cpc' = [cpc EXCEPT ![c] = IF request[c].method = "login_service"
                                 THEN "sent" ELSE "wait"]
    /\ UNCHANGED <<streaming, request, transportVars, errors, stops, ret,
                   yielded, lookups, target, receive_thread, to_client,
                   serverVars, sent, eventVars, extVars>>

\* login_service, after the send and before the wait: if call.error: raise
login_service_error(c) ==
    /\ cpc[c] = "sent"
    /\ IF call[c].error # NoError
       THEN /\ ret' = [ret EXCEPT ![c] = RpcException(call[c].error)]
            /\ cpc' = [cpc EXCEPT ![c] = "raised"]
       ELSE /\ cpc' = [cpc EXCEPT ![c] = "wait"]
            /\ UNCHANGED ret
    /\ UNCHANGED <<streaming, request, transportVars, errors, stops, call,
                   pending_calls, next_uuid, yielded, lookups, target,
                   receive_thread, to_server, to_client, serverVars, sent,
                   eventVars, extVars>>

\* wait_for_call has seen ready.  login_user and login_token raise the
\* call's error or store call.result[0] as the token; login_service returns.
login_returns(c) ==
    /\ cpc[c] = "wait"
    /\ call[c].ready
    /\ IF request[c].method = "login_service"
       THEN /\ ret' = [ret EXCEPT ![c] = Returned(JNone)]
            /\ cpc' = [cpc EXCEPT ![c] = "returned"]
            /\ UNCHANGED token
       ELSE IF call[c].error # NoError
            THEN /\ ret' = [ret EXCEPT ![c] = RpcException(call[c].error)]
                 /\ cpc' = [cpc EXCEPT ![c] = "raised"]
                 /\ UNCHANGED token
            ELSE /\ ret' = [ret EXCEPT ![c] = Returned(JNone)]
                 /\ cpc' = [cpc EXCEPT ![c] = "returned"]
                 /\ token' = call[c].result.l[1]
    /\ UNCHANGED <<streaming, request, transportVars, errors, stops, call,
                   pending_calls, next_uuid, yielded, lookups, target,
                   receive_thread, to_server, to_client, serverVars, sent,
                   eventVars, notAuthVars>>

\* The transport's reaction to a send that fails.  fd: doclose.  unix:
\* connected = False and the socket shut down.  ws: closed on EPIPE, nothing
\* on another OSError.  ssh: closed(), which drops the pending calls in the
\* sending thread.  unix server handler: the socket shut down.
SendFails(epipe) ==
    CASE transport.kind = "ws" /\ ~epipe ->
            UNCHANGED <<transport, upcalls, dropping>>
      [] transport.kind = "ssh" ->
            /\ transport' = [transport EXCEPT !.link = "down",
                                              !.terminated = TRUE]
            /\ upcalls' = [upcalls EXCEPT !.drops = @ + 1]
            /\ dropping' = [active |-> TRUE, keys |-> DOMAIN pending_calls']
      [] OTHER ->
            /\ transport' = [transport EXCEPT !.link = "down"]
            /\ UNCHANGED <<upcalls, dropping>>

\* Connection.call_sync whose frame the transport does not send: either the
\* write fails, or the transport is terminated already and send does nothing.
\* The PendingCall is installed all the same.
call_sync_unsent(c) ==
    /\ UNCHANGED <<eventVars, extVars>>
    /\ cpc[c] = "idle"
    /\ request[c] # NoRequest
    /\ transport.link # "new"
    /\ LET id == next_uuid + 1
       IN /\ next_uuid' = id
          /\ call' = [call EXCEPT ![c] = PendingCall(id, request[c].view)]
          /\ pending_calls' = DictSet(pending_calls, id, c)
    /\ cpc' = [cpc EXCEPT ![c] = "wait"]
    /\ IF transport.link = "stopped" \/ transport.terminated
       THEN UNCHANGED <<transportVars>>
       ELSE /\ \E epipe \in BOOLEAN : SendFails(epipe)
            /\ outage' = IF outage.why = ""
                       THEN [why |-> "send", pending |-> DOMAIN pending_calls']
                       ELSE outage
    /\ UNCHANGED <<streaming, request, ret, yielded, stops, errors, lookups,
                   target, receive_thread, to_server, to_client, serverVars,
                   sent>>

\* Connection.wait_for_call has seen ready; call_sync raises the call's error
\* or returns its result.
wait_for_call(c) ==
    /\ UNCHANGED <<eventVars, extVars>>
    /\ cpc[c] = "wait"
    /\ call[c].ready
    /\ IF call[c].result = JNone /\ call[c].error # NoError
       THEN /\ ret' = [ret EXCEPT ![c] = RpcException(call[c].error)]
            /\ cpc' = [cpc EXCEPT ![c] = "raised"]
       ELSE /\ ret' = [ret EXCEPT ![c] = Returned(call[c].result)]
            /\ cpc' = [cpc EXCEPT ![c] =
                        CASE call[c].result = StreamingResultIterator -> "iter"
                          [] call[c].result = StreamingResultView -> "view"
                          [] OTHER -> "returned"]
    /\ UNCHANGED <<streaming, request, transportVars, errors, stops, call, pending_calls, next_uuid, yielded,
                   lookups, target, receive_thread, to_server, to_client,
                   serverVars, sent>>

\* The mutant: the timeout is raised without telling error_callback.
call_timeout_silent(c) ==
    /\ UNCHANGED <<eventVars, extVars>>
    /\ cpc[c] = "wait"
    /\ ~call[c].ready
    /\ ret' = [ret EXCEPT ![c] =
                Raised("RpcException",
                       RpcError("ETIMEDOUT", "Call timed out", None))]
    /\ cpc' = [cpc EXCEPT ![c] = "raised"]
    /\ UNCHANGED <<streaming, request, transportVars, errors, call, pending_calls, next_uuid,
                   yielded, stops, lookups, target, receive_thread, to_server,
                   to_client, serverVars, sent>>

\* Connection.wait_for_call has returned False, ready unset through the whole
\* timeout: call_sync tells error_callback and raises ETIMEDOUT.  The
\* PendingCall stays in the table.
call_timeout(c) ==
    /\ UNCHANGED <<eventVars, extVars>>
    /\ cpc[c] = "wait"
    /\ ~call[c].ready
    /\ error_callback(RPC_CALL_TIMEOUT(request[c]))
    /\ ret' = [ret EXCEPT ![c] =
                Raised("RpcException",
                       RpcError("ETIMEDOUT", "Call timed out", None))]
    /\ cpc' = [cpc EXCEPT ![c] = "raised"]
    /\ UNCHANGED <<streaming, request, transportVars, call, pending_calls, next_uuid,
                   yielded, stops, lookups, target, receive_thread, to_server,
                   to_client, serverVars, sent>>

\* v = self.q.get(); None ends the iteration.
QueueGet(c) ==
    LET v == Head(call[c].queue)
    IN /\ call' = [call EXCEPT ![c].queue = Tail(call[c].queue)]
       /\ IF v = None
          THEN /\ cpc' = [cpc EXCEPT ![c] = "exhausted"]
               /\ stops' = [stops EXCEPT ![c] = @ + 1]
               /\ yielded' = yielded
          ELSE /\ cpc' = [cpc EXCEPT ![c] = "iter"]
               /\ yielded' = [yielded EXCEPT ![c] = Append(yielded[c], v)]
               /\ stops' = stops

\* The mutant: the continue asks again for the seqno already received.
NextSeqnoStale(c) == call[c].seqno

\* call_continue without a seqno: seqno = call.seqno + 1
NextSeqno(c) == call[c].seqno + 1

\* StreamingResultIterator.__next__ up to its first blocking point: with the
\* queue empty it sends continue seqno + 1 (call_continue) and waits.  The
\* application may call it again after a StopIteration.
iterator_next(c) ==
    /\ UNCHANGED <<eventVars, extVars>>
    /\ cpc[c] = "iter" \/ (cpc[c] = "exhausted" /\ stops[c] < MaxStops)
    /\ call[c].seqno > 0
    /\ IF call[c].queue # <<>>
       THEN /\ QueueGet(c)
            /\ UNCHANGED <<to_server, target, ret>>
       ELSE IF call[c].id \notin DOMAIN pending_calls
            THEN /\ cpc' = [cpc EXCEPT ![c] = "raised"]
                 /\ ret' = [ret EXCEPT ![c] = Raised("KeyError", NoError)]
                 /\ UNCHANGED <<to_server, target, call, yielded, stops>>
            ELSE /\ ToServer(send_continue(call[c].id, NextSeqno(c)))
                 /\ target' = [target EXCEPT ![c] = NextSeqno(c)]
                 /\ cpc' = [cpc EXCEPT ![c] = "continue_wait"]
                 /\ UNCHANGED <<call, yielded, ret, stops>>
    /\ UNCHANGED <<streaming, request, transportVars, errors, pending_calls, next_uuid, lookups,
                   receive_thread, to_client, serverVars, sent>>

\* call_continue(sync=True) returns: call.seqno == seqno or call.closed.
iterator_continued(c) ==
    /\ UNCHANGED <<eventVars, extVars>>
    /\ cpc[c] = "continue_wait"
    /\ call[c].seqno = target[c] \/ call[c].closed
    /\ cpc' = [cpc EXCEPT ![c] = "get"]
    /\ UNCHANGED <<streaming, request, transportVars, errors, stops, call, pending_calls, next_uuid, ret,
                   yielded, lookups, target, receive_thread, to_server,
                   to_client, serverVars, sent>>

\* the blocking q.get() after call_continue
iterator_get(c) ==
    /\ UNCHANGED <<eventVars, extVars>>
    /\ cpc[c] = "get"
    /\ call[c].queue # <<>>
    /\ QueueGet(c)
    /\ UNCHANGED <<streaming, request, transportVars, errors, pending_calls, next_uuid, ret, lookups,
                   target, receive_thread, to_server, to_client, serverVars,
                   sent>>

\* One finished __getitem__(item): its value or the exception it raised, and
\* whether it sent a continue.
Lookup(item, how, val, continued) ==
    [item |-> item, how |-> how, val |-> val, continued |-> continued]

\* return self.call.cache[item+1]
CacheRead(c, item, continued) ==
    IF item + 1 \in DOMAIN call[c].cache
    THEN Lookup(item, "returned", call[c].cache[item + 1], continued)
    ELSE Lookup(item, "KeyError", JNone, continued)

\* StreamingResultView.__getitem__ up to its blocking point.
view_getitem(c, item) ==
    /\ UNCHANGED <<eventVars, extVars>>
    /\ cpc[c] = "view"
    /\ Len(lookups[c]) < MaxLookups
    /\ IF call[c].closed
       THEN /\ lookups' = [lookups EXCEPT ![c] =
                    Append(@, Lookup(item, "RuntimeError", JNone, FALSE))]
            /\ UNCHANGED <<cpc, target, to_server>>
       ELSE IF item \in DOMAIN call[c].cache
            THEN /\ lookups' = [lookups EXCEPT ![c] =
                        Append(@, CacheRead(c, item, FALSE))]
                 /\ UNCHANGED <<cpc, target, to_server>>
            ELSE IF call[c].id \notin DOMAIN pending_calls
                 THEN /\ lookups' = [lookups EXCEPT ![c] =
                            Append(@, Lookup(item, "KeyError", JNone, FALSE))]
                      /\ UNCHANGED <<cpc, target, to_server>>
                 ELSE /\ ToServer(send_continue(call[c].id, item + 1))
                      /\ target' = [target EXCEPT ![c] = item + 1]
                      /\ cpc' = [cpc EXCEPT ![c] = "view_wait"]
                      /\ UNCHANGED lookups
    /\ UNCHANGED <<streaming, request, transportVars, errors, stops, call, pending_calls, next_uuid, ret,
                   yielded, receive_thread, to_client, serverVars, sent>>

\* call_continue(sync=True, seqno=item+1) returns and __getitem__ reads the
\* cache.
view_continued(c) ==
    /\ UNCHANGED <<eventVars, extVars>>
    /\ cpc[c] = "view_wait"
    /\ call[c].seqno = target[c] \/ call[c].closed
    /\ lookups' = [lookups EXCEPT ![c] =
            Append(@, CacheRead(c, target[c] - 1, TRUE))]
    /\ cpc' = [cpc EXCEPT ![c] = "view"]
    /\ UNCHANGED <<streaming, request, transportVars, errors, stops, call, pending_calls, next_uuid, ret,
                   yielded, target, receive_thread, to_server, to_client,
                   serverVars, sent>>

\* StreamingResultView.__getitem__ on a thread of its own, with call.cv held
\* up to the wait of call_continue(sync=True, seqno=item+1), which gives it
\* up.
looker_getitem(t, item) ==
    /\ cpc[Viewed] = "view"
    /\ lookers[t].pc = "idle"
    /\ \A u \in Lookers : lookers[u].pc # "idle" => lookers[u].seqno # item + 1
    /\ ~call[Viewed].closed
    /\ call[Viewed].id \in DOMAIN pending_calls
    /\ IF item \in DOMAIN call[Viewed].cache
       THEN /\ lookers' = [lookers EXCEPT ![t] = Looker("done", item + 1)]
            /\ UNCHANGED to_server
       ELSE /\ ToServer(send_continue(call[Viewed].id, item + 1))
            /\ lookers' = [lookers EXCEPT ![t] = Looker("wait", item + 1)]
    /\ UNCHANGED <<streaming, request, transportVars, clientVars, to_client,
                   serverVars, sent, eventVars, notLookVars>>

\* A notified waiter has call.cv again and wait_for tests its predicate:
\* call.seqno == seqno or call.closed.
looker_wakes(t) ==
    /\ lookers[t].pc = "awake"
    /\ lookers' = [lookers EXCEPT ![t].pc =
                    IF call[Viewed].seqno = lookers[t].seqno
                       \/ call[Viewed].closed
                    THEN "done" ELSE "wait"]
    /\ UNCHANGED <<rpcVars, eventVars, notLookVars>>

\* call.cv.notify(): one of the threads waiting on the condition is woken.
Notify ==
    IF \E t \in Lookers : lookers[t].pc = "wait"
    THEN \E t \in Lookers :
            /\ lookers[t].pc = "wait"
            /\ lookers' = [lookers EXCEPT ![t].pc = "awake"]
    ELSE UNCHANGED lookers

\* StreamingResultView.close on an open call: abort_call sends abort and waits.
abort_call(c) ==
    /\ UNCHANGED <<eventVars, extVars>>
    /\ cpc[c] = "view"
    /\ ~call[c].closed
    /\ call[c].id \in DOMAIN pending_calls
    /\ ToServer(send_abort(call[c].id))
    /\ cpc' = [cpc EXCEPT ![c] = "abort_wait"]
    /\ UNCHANGED <<streaming, request, transportVars, errors, stops, call, pending_calls, next_uuid, ret,
                   yielded, lookups, target, receive_thread, to_client,
                   serverVars, sent>>

\* abort_call returns: call.closed.
abort_returned(c) ==
    /\ UNCHANGED <<eventVars, extVars>>
    /\ cpc[c] = "abort_wait"
    /\ call[c].closed
    /\ cpc' = [cpc EXCEPT ![c] = "view"]
    /\ UNCHANGED <<streaming, request, transportVars, errors, stops, call, pending_calls, next_uuid, ret,
                   yielded, lookups, target, receive_thread, to_server,
                   to_client, serverVars, sent>>

\* ------------------------------------------------ calling side: the transport
\* ClientTransport.connect, or the accept of the unix server: the receive
\* thread starts.  Only the ws transport and the server handler call on_open.
connect ==
    /\ transport.link = "new"
    /\ transport' = [transport EXCEPT !.link = "up"]
    /\ upcalls' = [upcalls EXCEPT !.on_open =
                        IF transport.kind \in {"ws", "unix_server"}
                        THEN @ + 1 ELSE @]
    /\ event_thread' = IF transport.kind \in {"ws", "unix_server"}
                       THEN [event_thread EXCEPT !.state = "idle"]
                       ELSE event_thread
    /\ UNCHANGED <<streaming, request, clientVars, to_server, to_client,
                   serverVars, sent, dropping, outage, senderVars, subs, nsubs,
                   events, recipientVars, waiter, extVars>>

\* The peer closes its end: the next read returns nothing.
peer_eof ==
    /\ UNCHANGED <<eventVars, extVars>>
    /\ transport.link = "up"
    /\ transport' = [transport EXCEPT !.link = "down"]
    /\ outage' = [why |-> "eof", pending |-> DOMAIN pending_calls]
    /\ UNCHANGED <<streaming, request, clientVars, to_server, to_client,
                   serverVars, sent, upcalls, dropping>>

\* Client.disconnect: ClientTransport.close.  unix and ssh set terminated.
close ==
    /\ UNCHANGED <<eventVars, extVars>>
    /\ transport.link = "up"
    /\ transport.kind # "unix_server"
    /\ transport' = [transport EXCEPT
                        !.link = "down",
                        !.terminated = transport.kind \in {"unix", "ssh"}]
    /\ outage' = [why |-> "close", pending |-> DOMAIN pending_calls]
    /\ UNCHANGED <<streaming, request, clientVars, to_server, to_client,
                   serverVars, sent, upcalls, dropping>>

\* Connection.on_close of Client and of ServerConnection: drop_pending_calls
\* takes list(self.pending_calls.items()).
on_close ==
    /\ upcalls' = [upcalls EXCEPT !.on_close = @ + 1, !.drops = @ + 1]
    /\ dropping' = [active |-> TRUE, keys |-> DOMAIN pending_calls]

\* on_close of the Connection that serves the calls, its transport down:
\* the sentinel and the join (ServerConnection), drop_pending_calls for the
\* calls it made itself, connections.remove; pending_iterators is not
\* mentioned.
sender_on_close ==
    /\ transport.link \in {"down", "stopped"}
    /\ ~sender_closed
    /\ sender_closed' = TRUE
    /\ UNCHANGED <<rpcVars, eventVars, notGoneVars>>

\* The receive loop ends, the transport down.  fd: doclose, no upcall.
\* unix: closed() calls on_close unless terminated.  ws: closed() calls
\* on_close.  ssh: closed() drops the pending calls, on a terminated
\* transport only if the read returned before the loop test.  unix server
\* handler: close() calls on_close.
recv_stops ==
    /\ UNCHANGED <<eventVars, extVars>>
    /\ receive_thread = "running"
    /\ transport.link = "down"
    /\ receive_thread' = "stopped"
    /\ CASE transport.kind = "fd" ->
                /\ transport' = [transport EXCEPT !.link = "stopped"]
                /\ UNCHANGED <<upcalls, dropping>>
          [] transport.kind = "unix" ->
                /\ transport' = [transport EXCEPT !.link = "stopped",
                                                  !.terminated = TRUE]
                /\ IF transport.terminated
                   THEN UNCHANGED <<upcalls, dropping>>
                   ELSE on_close
          [] transport.kind = "ssh" ->
                /\ transport' = [transport EXCEPT !.link = "stopped",
                                                  !.terminated = TRUE]
                /\ \E reads \in BOOLEAN :
                      IF transport.terminated /\ ~reads
                      THEN UNCHANGED <<upcalls, dropping>>
                      ELSE /\ upcalls' = [upcalls EXCEPT !.drops = @ + 1]
                           /\ dropping' = [active |-> TRUE,
                                           keys |-> dropping.keys
                                                    \cup DOMAIN pending_calls]
          [] OTHER ->
                /\ transport' = [transport EXCEPT !.link = "stopped"]
                /\ on_close
    /\ UNCHANGED <<streaming, request, cpc, call, pending_calls, next_uuid,
                   ret, yielded, stops, errors, lookups, target, to_server,
                   to_client, serverVars, sent, outage>>

ECONNABORTED == RpcError("ECONNABORTED", "Connection closed", None)

\* The loop of Connection.drop_pending_calls over the items it listed.
drop_pending_calls ==
    /\ UNCHANGED <<eventVars, extVars>>
    /\ dropping.active
    /\ LET keys == dropping.keys \cap DOMAIN pending_calls
       IN /\ call' = [c \in Callers |->
                        IF call[c].id \in keys
                        THEN [call[c] EXCEPT !.result = JNone,
                                             !.error = ECONNABORTED,
                                             !.ready = TRUE]
                        ELSE call[c]]
          /\ pending_calls' = [k \in DOMAIN pending_calls \ keys |->
                                    pending_calls[k]]
    /\ dropping' = NotDropping
    /\ UNCHANGED <<streaming, request, cpc, next_uuid, ret, yielded, stops,
                   errors, lookups, target, receive_thread, to_server,
                   to_client, serverVars, sent, transport, upcalls, outage>>

\* ------------------------------------------- calling side: the receive thread
Pending(id) == id \in DOMAIN pending_calls

\* The frame Connection.on_message is handed next.
Inbound(name) ==
    /\ receive_thread = "running"
    /\ to_client # <<>>
    /\ Head(to_client).name = name

\* The mutant: a response is handed to the oldest pending call, whatever its id.
LookupCallOldest(id) ==
    pending_calls[CHOOSE k \in DOMAIN pending_calls :
                    \A j \in DOMAIN pending_calls : k <= j]

\* call = self.pending_calls[id]
LookupCall(id) == pending_calls[id]

\* Connection.on_rpc_response
on_rpc_response ==
    /\ UNCHANGED <<eventVars, extVars>>
    /\ Inbound("response")
    /\ LET m == Head(to_client)
       IN IF m.id \in DOMAIN pending_calls
          THEN LET c == LookupCall(m.id)
               IN /\ call' = [call EXCEPT ![c].result = m.args,
                                          ![c].ready = TRUE]
                  /\ pending_calls' = DictDel(pending_calls, call[c].id)
                  /\ UNCHANGED errors
          ELSE /\ error_callback(SPURIOUS_RPC_RESPONSE(m.id))
               /\ UNCHANGED <<call, pending_calls>>
    /\ to_client' = Tail(to_client)
    /\ UNCHANGED <<streaming, request, transportVars, stops, cpc, next_uuid, ret, yielded, lookups,
                   target, receive_thread, to_server, serverVars, sent>>

\* Connection.on_rpc_fragment.  A fragment that is None cannot be iterated:
\* the TypeError ends the receive thread.
on_rpc_fragment ==
    /\ UNCHANGED <<eventVars, extVars>>
    /\ Inbound("fragment")
    /\ LET m == Head(to_client)
       IN IF m.id \in DOMAIN pending_calls
          THEN LET c == LookupCall(m.id)
                   result == IF call[c].result = JNone
                             THEN IF call[c].view THEN StreamingResultView
                                  ELSE StreamingResultIterator
                             ELSE call[c].result
               IN IF ~call[c].view /\ m.args.tag # "list"
                  THEN /\ call' = [call EXCEPT ![c].result = result]
                       /\ receive_thread' = "dead"
                  ELSE /\ call' = [call EXCEPT
                            ![c].result = result,
                            ![c].queue = IF call[c].view THEN @
                                         ELSE @ \o m.args.l,
                            ![c].cache = IF call[c].view
                                         THEN DictSet(@, m.seqno, m.args)
                                         ELSE @,
                            ![c].seqno = m.seqno,
                            ![c].ready = TRUE]
                       /\ UNCHANGED receive_thread
          ELSE UNCHANGED <<call, receive_thread>>
    /\ to_client' = Tail(to_client)
    /\ UNCHANGED <<streaming, request, transportVars, errors, stops, cpc, pending_calls, next_uuid, ret,
                   yielded, lookups, target, to_server, serverVars, sent>>

\* Connection.on_rpc_end
on_rpc_end ==
    /\ UNCHANGED <<eventVars, extVars>>
    /\ Inbound("end")
    /\ LET m == Head(to_client)
       IN IF m.id \in DOMAIN pending_calls
          THEN LET c == LookupCall(m.id)
               IN call' = [call EXCEPT
                    ![c].result = IF @ = JNone
                                  THEN IF call[c].view THEN StreamingResultView
                                       ELSE StreamingResultIterator
                                  ELSE @,
                    ![c].seqno = m.seqno,
                    ![c].queue = IF call[c].view THEN @ ELSE Append(@, None),
                    ![c].ready = TRUE]
          ELSE UNCHANGED call
    /\ to_client' = Tail(to_client)
    /\ UNCHANGED <<streaming, request, transportVars, errors, stops, cpc, pending_calls, next_uuid, ret,
                   yielded, lookups, target, receive_thread, to_server,
                   serverVars, sent>>

\* Connection.on_rpc_fragment with the waiters on call.cv
on_rpc_fragment_notify ==
    /\ Inbound("fragment")
    /\ LET m == Head(to_client)
       IN IF m.id \in DOMAIN pending_calls
          THEN LET c == LookupCall(m.id)
                   result == IF call[c].result = JNone
                             THEN IF call[c].view THEN StreamingResultView
                                  ELSE StreamingResultIterator
                             ELSE call[c].result
               IN IF ~call[c].view /\ m.args.tag # "list"
                  THEN /\ call' = [call EXCEPT ![c].result = result]
                       /\ receive_thread' = "dead"
                       /\ UNCHANGED lookers
                  ELSE /\ call' = [call EXCEPT
                            ![c].result = result,
                            ![c].queue = IF call[c].view THEN @
                                         ELSE @ \o m.args.l,
                            ![c].cache = IF call[c].view
                                         THEN DictSet(@, m.seqno, m.args)
                                         ELSE @,
                            ![c].seqno = m.seqno,
                            ![c].ready = TRUE]
                       /\ Notify
                       /\ UNCHANGED receive_thread
          ELSE UNCHANGED <<call, receive_thread, lookers>>
    /\ to_client' = Tail(to_client)
    /\ UNCHANGED <<streaming, request, transportVars, errors, stops, cpc,
                   pending_calls, next_uuid, ret, yielded, lookups, target,
                   to_server, serverVars, sent, eventVars, notLookVars>>

\* Connection.on_rpc_end with the waiters on call.cv
on_rpc_end_notify ==
    /\ Inbound("end")
    /\ LET m == Head(to_client)
       IN IF m.id \in DOMAIN pending_calls
          THEN LET c == LookupCall(m.id)
               IN /\ call' = [call EXCEPT
                       ![c].result = IF @ = JNone
                                     THEN IF call[c].view
                                          THEN StreamingResultView
                                          ELSE StreamingResultIterator
                                     ELSE @,
                       ![c].seqno = m.seqno,
                       ![c].queue = IF call[c].view THEN @
                                    ELSE Append(@, None),
                       ![c].ready = TRUE]
                  /\ Notify
          ELSE UNCHANGED <<call, lookers>>
    /\ to_client' = Tail(to_client)
    /\ UNCHANGED <<streaming, request, transportVars, errors, stops, cpc,
                   pending_calls, next_uuid, ret, yielded, lookups, target,
                   receive_thread, to_server, serverVars, sent, eventVars,
                   notLookVars>>

\* call.callback(arg) and what it returned
Invocation(arg, returned) == [arg |-> arg, returned |-> returned]

\* if call.callback is not None: call.callback(arg)
Invoke(c, arg, returned) ==
    IF callback[c]
    THEN invoked' = [invoked EXCEPT ![c] = Append(@, Invocation(arg, returned))]
    ELSE UNCHANGED invoked

\* Connection.on_rpc_response with the callback
on_rpc_response_callback ==
    /\ Inbound("response")
    /\ LET m == Head(to_client)
       IN IF m.id \in DOMAIN pending_calls
          THEN LET c == LookupCall(m.id)
               IN /\ call' = [call EXCEPT ![c].result = m.args,
                                          ![c].ready = TRUE]
                  /\ Invoke(c, Returned(m.args), FALSE)
                  /\ pending_calls' = DictDel(pending_calls, call[c].id)
                  /\ UNCHANGED errors
          ELSE /\ error_callback(SPURIOUS_RPC_RESPONSE(m.id))
               /\ UNCHANGED <<call, pending_calls, invoked>>
    /\ to_client' = Tail(to_client)
    /\ UNCHANGED <<streaming, request, transportVars, stops, cpc, next_uuid,
                   ret, yielded, lookups, target, receive_thread, to_server,
                   serverVars, sent, callback, eventVars, notAsyncVars>>

\* The mutant: call_continue is called whatever the callback returned.
on_rpc_fragment_continues(returned) ==
    /\ Inbound("fragment")
    /\ LET m == Head(to_client)
       IN IF m.id \in DOMAIN pending_calls
          THEN LET c == LookupCall(m.id)
                   result == IF call[c].result = JNone
                             THEN IF call[c].view THEN StreamingResultView
                                  ELSE StreamingResultIterator
                             ELSE call[c].result
               IN IF ~call[c].view /\ m.args.tag # "list"
                  THEN /\ call' = [call EXCEPT ![c].result = result]
                       /\ receive_thread' = "dead"
                       /\ UNCHANGED <<invoked, to_server>>
                  ELSE /\ call' = [call EXCEPT
                            ![c].result = result,
                            ![c].queue = IF call[c].view THEN @
                                         ELSE @ \o m.args.l,
                            ![c].cache = IF call[c].view
                                         THEN DictSet(@, m.seqno, m.args)
                                         ELSE @,
                            ![c].seqno = m.seqno,
                            ![c].ready = TRUE]
                       /\ Invoke(c, Returned(m.args), returned)
                       /\ IF callback[c]
                          THEN ToServer(send_continue(m.id, m.seqno + 1))
                          ELSE UNCHANGED to_server
                       /\ UNCHANGED receive_thread
          ELSE UNCHANGED <<call, receive_thread, invoked, to_server>>
    /\ to_client' = Tail(to_client)
    /\ UNCHANGED <<streaming, request, transportVars, errors, stops, cpc,
                   pending_calls, next_uuid, ret, yielded, lookups, target,
                   serverVars, sent, callback, eventVars, notAsyncVars>>

\* Connection.on_rpc_fragment with the callback, which returns `returned`:
\* if call.callback(data): self.call_continue(id), which sends continue for
\* call.seqno + 1.
on_rpc_fragment_callback(returned) ==
    /\ Inbound("fragment")
    /\ LET m == Head(to_client)
       IN IF m.id \in DOMAIN pending_calls
          THEN LET c == LookupCall(m.id)
                   result == IF call[c].result = JNone
                             THEN IF call[c].view THEN StreamingResultView
                                  ELSE StreamingResultIterator
                             ELSE call[c].result
               IN IF ~call[c].view /\ m.args.tag # "list"
                  THEN /\ call' = [call EXCEPT ![c].result = result]
                       /\ receive_thread' = "dead"
                       /\ UNCHANGED <<invoked, to_server>>
                  ELSE /\ call' = [call EXCEPT
                            ![c].result = result,
                            ![c].queue = IF call[c].view THEN @
                                         ELSE @ \o m.args.l,
                            ![c].cache = IF call[c].view
                                         THEN DictSet(@, m.seqno, m.args)
                                         ELSE @,
                            ![c].seqno = m.seqno,
                            ![c].ready = TRUE]
                       /\ Invoke(c, Returned(m.args), returned)
                       /\ IF callback[c] /\ returned
                          THEN ToServer(send_continue(m.id, m.seqno + 1))
                          ELSE UNCHANGED to_server
                       /\ UNCHANGED receive_thread
          ELSE UNCHANGED <<call, receive_thread, invoked, to_server>>
    /\ to_client' = Tail(to_client)
    /\ UNCHANGED <<streaming, request, transportVars, errors, stops, cpc,
                   pending_calls, next_uuid, ret, yielded, lookups, target,
                   serverVars, sent, callback, eventVars, notAsyncVars>>

\* Connection.on_rpc_end with the callback
on_rpc_end_callback ==
    /\ Inbound("end")
    /\ LET m == Head(to_client)
       IN IF m.id \in DOMAIN pending_calls
          THEN LET c == LookupCall(m.id)
               IN /\ call' = [call EXCEPT
                       ![c].result = IF @ = JNone
                                     THEN IF call[c].view
                                          THEN StreamingResultView
                                          ELSE StreamingResultIterator
                                     ELSE @,
                       ![c].seqno = m.seqno,
                       ![c].queue = IF call[c].view THEN @
                                    ELSE Append(@, None),
                       ![c].ready = TRUE]
                  /\ Invoke(c, Returned(JNone), FALSE)
          ELSE UNCHANGED <<call, invoked>>
    /\ to_client' = Tail(to_client)
    /\ UNCHANGED <<streaming, request, transportVars, errors, stops, cpc,
                   pending_calls, next_uuid, ret, yielded, lookups, target,
                   receive_thread, to_server, serverVars, sent, callback,
                   eventVars, notAsyncVars>>

\* Connection.on_rpc_error with the callback
on_rpc_error_callback ==
    /\ Inbound("error")
    /\ LET m == Head(to_client)
       IN IF m.id \in DOMAIN pending_calls
          THEN LET c == LookupCall(m.id)
               IN /\ call' = [call EXCEPT ![c].result = JNone,
                                          ![c].error = m.error,
                                          ![c].ready = TRUE]
                  /\ Invoke(c, RpcException(m.error), FALSE)
                  /\ pending_calls' = DictDel(pending_calls, call[c].id)
          ELSE UNCHANGED <<call, pending_calls, invoked>>
    /\ error_callback(RPC_CALL_ERROR)
    /\ to_client' = Tail(to_client)
    /\ UNCHANGED <<streaming, request, transportVars, stops, cpc, next_uuid,
                   ret, yielded, lookups, target, receive_thread, to_server,
                   serverVars, sent, callback, eventVars, notAsyncVars>>

\* Connection.on_rpc_close
on_rpc_close ==
    /\ UNCHANGED <<eventVars, extVars>>
    /\ Inbound("close")
    /\ LET m == Head(to_client)
       IN IF m.id \in DOMAIN pending_calls
          THEN call' = [call EXCEPT ![LookupCall(m.id)].closed = TRUE]
          ELSE UNCHANGED call
    /\ to_client' = Tail(to_client)
    /\ UNCHANGED <<streaming, request, transportVars, errors, stops, cpc, pending_calls, next_uuid, ret,
                   yielded, lookups, target, receive_thread, to_server,
                   serverVars, sent>>

\* The mutant: the error is recorded but the entry stays in the table.
on_rpc_error_keep ==
    /\ UNCHANGED <<eventVars, extVars>>
    /\ Inbound("error")
    /\ LET m == Head(to_client)
       IN IF m.id \in DOMAIN pending_calls
          THEN LET c == LookupCall(m.id)
               IN call' = [call EXCEPT ![c].result = JNone,
                                       ![c].error = m.error,
                                       ![c].ready = TRUE]
          ELSE UNCHANGED call
    /\ error_callback(RPC_CALL_ERROR)
    /\ to_client' = Tail(to_client)
    /\ UNCHANGED <<streaming, request, transportVars, stops, cpc, pending_calls, next_uuid, ret,
                   yielded, lookups, target, receive_thread, to_server,
                   serverVars, sent>>

\* The mutant: the error is recorded on every call in the table.
on_rpc_error_all ==
    /\ UNCHANGED <<eventVars, extVars>>
    /\ Inbound("error")
    /\ LET m == Head(to_client)
       IN IF m.id \in DOMAIN pending_calls
          THEN /\ call' = [c \in Callers |->
                            IF Pending(call[c].id)
                            THEN [call[c] EXCEPT !.result = JNone,
                                                 !.error = m.error,
                                                 !.ready = TRUE]
                            ELSE call[c]]
               /\ pending_calls' = DictDel(pending_calls, m.id)
          ELSE UNCHANGED <<call, pending_calls>>
    /\ error_callback(RPC_CALL_ERROR)
    /\ to_client' = Tail(to_client)
    /\ UNCHANGED <<streaming, request, transportVars, stops, cpc, next_uuid, ret, yielded,
                   lookups, target, receive_thread, to_server, serverVars, sent>>

\* Connection.on_rpc_error
on_rpc_error ==
    /\ UNCHANGED <<eventVars, extVars>>
    /\ Inbound("error")
    /\ LET m == Head(to_client)
       IN IF m.id \in DOMAIN pending_calls
          THEN LET c == LookupCall(m.id)
               IN /\ call' = [call EXCEPT ![c].result = JNone,
                                          ![c].error = m.error,
                                          ![c].ready = TRUE]
                  /\ pending_calls' = DictDel(pending_calls, call[c].id)
          ELSE UNCHANGED <<call, pending_calls>>
    /\ error_callback(RPC_CALL_ERROR)
    /\ to_client' = Tail(to_client)
    /\ UNCHANGED <<streaming, request, transportVars, stops, cpc, next_uuid, ret, yielded, lookups,
                   target, receive_thread, to_server, serverVars, sent>>

\* ------------------------------------------- serving side: the receive thread
ToClient(frames) ==
    /\ to_client' = to_client \o frames
    /\ sent' = [sent EXCEPT ![frames[1].id] = @ \o frames]

Task(type, id, seqno, req) ==
    [tid |-> spawned[id] + 1, type |-> type, id |-> id, seqno |-> seqno,
     req |-> req, pc |-> "run"]

spawn_thread(task) ==
    /\ workers' = workers \cup {task}
    /\ spawned' = [spawned EXCEPT ![task.id] = @ + 1]

Request_(name) ==
    /\ to_server # <<>>
    /\ Head(to_server).name = name

\* The token the peer grants to a login.
TokenOf(req) == JStr("token-" \o req.arg)

\* The peer's answer to auth, auth_service or auth_token: a response that
\* carries the token, or an error.
on_rpc_auth(granted) ==
    /\ to_server # <<>>
    /\ Head(to_server).name \in {"auth", "auth_service", "auth_token"}
    /\ LET m == Head(to_server)
       IN IF granted
          THEN ToClient(<<send_response(m.id, JList(<<TokenOf(m.req)>>))>>)
          ELSE ToClient(<<send_error(m.id, "EACCES", "Login failed", None)>>)
    /\ to_server' = Tail(to_server)
    /\ UNCHANGED <<streaming, request, transportVars, clientVars, serverVars,
                   eventVars, extVars>>

\* The serving side calls its peer, or one of its calls is answered: its
\* own pending_calls grows or shrinks.
server_call_sync ==
    /\ server_calls < MaxServerCalls
    /\ server_calls' = server_calls + 1
    /\ UNCHANGED <<rpcVars, eventVars, notLimitVars, call_queue_limit>>

server_call_answered ==
    /\ server_calls > 0
    /\ server_calls' = server_calls - 1
    /\ UNCHANGED <<rpcVars, eventVars, notLimitVars, call_queue_limit>>

\* The mutant: the call is refused only above the limit.
on_rpc_call_above ==
    /\ UNCHANGED <<eventVars, extVars>>
    /\ Request_("call")
    /\ LET m == Head(to_server)
       IN IF call_queue_limit # 0 /\ server_calls > call_queue_limit
          THEN /\ ToClient(<<send_error(m.id, "EBUSY",
                            "Number of simultaneous requests exceeded", None)>>)
               /\ UNCHANGED <<workers, spawned>>
          ELSE /\ spawn_thread(Task("call", m.id, 0, m.req))
               /\ UNCHANGED <<to_client, sent>>
    /\ to_server' = Tail(to_server)
    /\ UNCHANGED <<streaming, request, transportVars, errors, stops, clientVars,
                   pending_iterators, iterators, continues>>

\* Connection.on_rpc_call with an RpcContext bound: EBUSY if call_queue_limit
\* is neither None nor 0 and len(self.pending_calls) has reached it, else
\* run_async is spawned.
on_rpc_call ==
    /\ UNCHANGED <<eventVars, extVars>>
    /\ Request_("call")
    /\ LET m == Head(to_server)
       IN IF call_queue_limit # 0 /\ server_calls >= call_queue_limit
          THEN /\ ToClient(<<send_error(m.id, "EBUSY",
                            "Number of simultaneous requests exceeded", None)>>)
               /\ UNCHANGED <<workers, spawned>>
          ELSE /\ spawn_thread(Task("call", m.id, 0, m.req))
               /\ UNCHANGED <<to_client, sent>>
    /\ to_server' = Tail(to_server)
    /\ UNCHANGED <<streaming, request, transportVars, errors, stops, clientVars,
                   pending_iterators, iterators, continues>>

\* Connection.on_rpc_continue
on_rpc_continue ==
    /\ UNCHANGED <<eventVars, extVars>>
    /\ Request_("continue")
    /\ LET m == Head(to_server)
       IN /\ continues' = [continues EXCEPT ![m.id] = Append(@, m.seqno)]
          /\ IF m.id \notin pending_iterators
             THEN /\ ToClient(<<send_error(m.id, "ENOENT", "Invalid call", None)>>)
                  /\ UNCHANGED <<workers, spawned>>
             ELSE /\ spawn_thread(Task("continue", m.id, m.seqno, NoRequest))
                  /\ UNCHANGED <<to_client, sent>>
    /\ to_server' = Tail(to_server)
    /\ UNCHANGED <<streaming, request, transportVars, errors, stops, clientVars, pending_iterators,
                   iterators>>

\* The peer's Connection.send_continue(id, seqno): a continue for a call whose
\* iterator is registered, with any seqno, sent when the serving side has
\* nothing left to do for the ones before.
peer_continue(id, seqno) ==
    /\ id \in pending_iterators
    /\ to_server = <<>> /\ workers = {}
    /\ Len(continues[id]) < MaxContinues
    /\ ToServer(send_continue(id, seqno))
    /\ UNCHANGED <<streaming, request, clientVars, to_client, serverVars, sent,
                   transportVars, eventVars, extVars>>

\* The peer sends its continues without waiting for their fragments: seqno
\* 2, 3, ... in order, the first fragment having carried seqno 1.
Pipelined(id) ==
    Len(continues[id])
    + Cardinality({i \in 1..Len(to_server) :
                      to_server[i].name = "continue" /\ to_server[i].id = id})

pipelined_continue(id) ==
    /\ id \in pending_iterators
    /\ Pipelined(id) < MaxPipelined
    /\ ToServer(send_continue(id, Pipelined(id) + 2))
    /\ UNCHANGED <<streaming, request, clientVars, to_client, serverVars, sent,
                   transportVars, eventVars, extVars>>

\* Connection.on_rpc_abort.  PendingIterator.close may raise; the handler
\* swallows that, skipping the del, and sends close all the same.
on_rpc_abort ==
    /\ UNCHANGED <<eventVars, extVars>>
    /\ Request_("abort")
    /\ LET m == Head(to_server)
       IN IF m.id \notin pending_iterators
          THEN /\ ToClient(<<send_error(m.id, "ENOENT", "Invalid call", None)>>)
               /\ UNCHANGED <<pending_iterators, iterators>>
          ELSE /\ \E raises \in BOOLEAN :
                    IF raises
                    THEN UNCHANGED <<pending_iterators, iterators>>
                    ELSE /\ iterators' = [iterators EXCEPT
                                            ![m.id].state = "closed"]
                         /\ pending_iterators' = pending_iterators \ {m.id}
               /\ ToClient(<<send_close(m.id)>>)
    /\ to_server' = Tail(to_server)
    /\ UNCHANGED <<streaming, request, transportVars, errors, stops, clientVars, workers, spawned,
                   continues>>

\* The frames a peer may send under an id that answers no call of the
\* calling side, one of each inbound kind.
StrayFrames ==
    {send_response(StrayId, JStr("stray")),
     send_fragment(StrayId, 1, JList(<<IteratorValue(0)>>)),
     send_end(StrayId, 1),
     send_close(StrayId),
     send_error(StrayId, "ENOENT", "Invalid call", None)}

\* The peer sends one such frame.
send_stray ==
    /\ UNCHANGED <<eventVars, extVars>>
    /\ sent[StrayId] = <<>>
    /\ \E m \in StrayFrames : ToClient(<<m>>)
    /\ UNCHANGED <<streaming, request, transportVars, clientVars, to_server, serverVars>>

\* ------------------------------------------------ inbound: invalid messages
\* What on_message cannot dispatch: bytes that are not JSON, and JSON objects
\* without a namespace or without a name.
Invalid == {"not_json", "no_namespace", "no_name"}

Raw(kind) == Message(kind, StrayId, 0, JNone, NoError, NoRequest)

Invalids(q) == Cardinality({i \in DOMAIN q : q[i].id = StrayId})

\* The peer sends such a message.
send_invalid(kind) ==
    /\ UNCHANGED <<eventVars, extVars>>
    /\ transport.link = "up"
    /\ Invalids(to_client) + Invalids(to_server) < MaxInvalid
    /\ to_client' = Append(to_client, Raw(kind))
    /\ UNCHANGED <<streaming, request, transportVars, clientVars, to_server,
                   serverVars, sent>>

EINVAL(kind) ==
    RpcError("EINVAL",
             IF kind = "not_json" THEN "Request is not valid JSON"
             ELSE "Invalid request", None)

\* Connection.on_message on an invalid message: send_error(None, EINVAL, ...)
\* under a fresh id, and return.
on_message_invalid ==
    /\ UNCHANGED <<eventVars, extVars>>
    /\ receive_thread = "running"
    /\ to_client # <<>>
    /\ Head(to_client).name \in Invalid
    /\ to_client' = Tail(to_client)
    /\ ToServer(Message("error", StrayId, 0, JNone,
                        EINVAL(Head(to_client).name), NoRequest))
    /\ UNCHANGED <<streaming, request, transportVars, cpc, call,
                   pending_calls, next_uuid, ret, yielded, stops, errors,
                   lookups, target, receive_thread, serverVars, sent>>

\* The peer's on_rpc_error for an id it has no call under.
peer_on_rpc_error ==
    /\ UNCHANGED <<eventVars, extVars>>
    /\ to_server # <<>>
    /\ Head(to_server).name = "error"
    /\ to_server' = Tail(to_server)
    /\ UNCHANGED <<streaming, request, transportVars, clientVars, to_client,
                   serverVars, sent>>

\* ---------------------------------------------- serving side: the worker pool
\* The mutant: close is sent for a view iterator as well.
EndFramesClose(id, seqno, view) == <<send_end(id, seqno), send_close(id)>>

\* What run_async sends when the source is exhausted: end, and for a non-view
\* iterator close.
EndFrames(id, seqno, view) ==
    IF view THEN <<send_end(id, seqno)>>
    ELSE <<send_end(id, seqno), send_close(id)>>

\* After the frames of an exhausted non-view iterator, the task still has
\* del self.pending_iterators[id] to do.
Finish(w, stop, view) ==
    IF stop /\ ~view
    THEN workers' = (workers \ {w}) \cup {[w EXCEPT !.pc = "del"]}
    ELSE workers' = workers \ {w}

\* The mutant: whatever dispatch returns without raising is streamed.
IsStreamingResponseAlways(result) == result.kind # "error"

\* isinstance(result, rpc.RpcStreamingResponse)
IsStreamingResponse(result) == result.kind = "stream"

\* run_async of on_rpc_call
run_async_call(w) ==
    /\ UNCHANGED <<eventVars, extVars>>
    /\ w \in workers /\ w.type = "call" /\ w.pc = "run"
    /\ LET result == dispatch_call(w.req, streaming)
       IN CASE result.kind = "error" ->
                /\ ToClient(<<send_error(w.id, result.error.code,
                                         result.error.message,
                                         result.error.extra)>>)
                /\ workers' = workers \ {w}
                /\ UNCHANGED <<pending_iterators, iterators>>
            [] ~IsStreamingResponse(result) ->
                /\ ToClient(<<send_response(w.id, result.value)>>)
                /\ workers' = workers \ {w}
                /\ UNCHANGED <<pending_iterators, iterators>>
            [] OTHER ->
                LET a == advance(PendingIterator(result.src, w.req.view))
                IN /\ pending_iterators' = pending_iterators \cup {w.id}
                   /\ iterators' = [iterators EXCEPT ![w.id] = a.it]
                   /\ IF a.stop
                      THEN ToClient(EndFrames(w.id, a.seqno, a.it.view))
                      ELSE ToClient(<<send_fragment(w.id, a.seqno,
                                                    JList(a.val))>>)
                   /\ Finish(w, a.stop, a.it.view)
    /\ UNCHANGED <<streaming, request, transportVars, errors, stops, clientVars, to_server, spawned,
                   continues>>

\* The mutant: having sent the fragment asked for, the task pushes the next
\* one without waiting for its continue.
run_async_continue_eager(w) ==
    /\ UNCHANGED <<eventVars, extVars>>
    /\ w \in workers /\ w.type = "continue" /\ w.pc = "run"
    /\ IF w.id \notin pending_iterators
       THEN /\ workers' = workers \ {w}
            /\ UNCHANGED <<to_client, sent, iterators>>
       ELSE LET r == request_chunk(iterators[w.id], w.seqno)
                a == advance(r.it)
            IN /\ iterators' = [iterators EXCEPT ![w.id] =
                        IF r.how = "value" /\ ~a.stop THEN a.it ELSE r.it]
               /\ CASE r.how = "stop" ->
                        ToClient(EndFrames(w.id, w.seqno, r.it.view))
                    [] r.how = "value" ->
                        ToClient(<<send_fragment(w.id, w.seqno, JList(r.val))>>
                                 \o (IF a.stop THEN <<>>
                                     ELSE <<send_fragment(w.id, a.seqno,
                                                          JList(a.val))>>))
                    [] OTHER ->
                        ToClient(<<send_fragment(w.id, w.seqno, JNone)>>)
               /\ Finish(w, r.how = "stop", r.it.view)
    /\ UNCHANGED <<streaming, request, transportVars, errors, stops, clientVars, to_server,
                   pending_iterators, spawned, continues>>

\* run_async of on_rpc_continue.  A task whose iterator is gone by the time
\* it runs ends on the KeyError of self.pending_iterators[id].
run_async_continue(w) ==
    /\ UNCHANGED <<eventVars, extVars>>
    /\ w \in workers /\ w.type = "continue" /\ w.pc = "run"
    /\ IF w.id \notin pending_iterators
       THEN /\ workers' = workers \ {w}
            /\ UNCHANGED <<to_client, sent, iterators>>
       ELSE LET r == request_chunk(iterators[w.id], w.seqno)
            IN /\ iterators' = [iterators EXCEPT ![w.id] = r.it]
               /\ CASE r.how = "stop" ->
                        ToClient(EndFrames(w.id, w.seqno, r.it.view))
                    [] r.how = "value" ->
                        ToClient(<<send_fragment(w.id, w.seqno, JList(r.val))>>)
                    [] OTHER ->
                        ToClient(<<send_fragment(w.id, w.seqno, JNone)>>)
               /\ Finish(w, r.how = "stop", r.it.view)
    /\ UNCHANGED <<streaming, request, transportVars, errors, stops, clientVars, to_server,
                   pending_iterators, spawned, continues>>

\* del self.pending_iterators[id], the last statement of a run_async that
\* has sent end and close.
run_async_del(w) ==
    /\ UNCHANGED <<eventVars, extVars>>
    /\ w \in workers /\ w.pc = "del"
    /\ pending_iterators' = pending_iterators \ {w.id}
    /\ workers' = workers \ {w}
    /\ UNCHANGED <<streaming, request, transportVars, errors, stops, clientVars, to_server, to_client,
                   iterators, spawned, sent, continues>>

\* ------------------------------------- call_sync and on_rpc_response, step by step
\* The same call with each access to self.pending_calls a stretch of two
\* steps, its start and its end, and self.rlock taken and left where the code
\* takes and leaves it.
Access(t, what) == accessing' = [accessing EXCEPT ![t] = what]

\* call_sync: call = PendingCall(uuid4(), ...); the caller reaches
\* self.pending_calls[str(call.id)] = call
call_sync_insert(c) ==
    /\ cpc[c] = "idle"
    /\ request[c] # NoRequest
    /\ transport.link = "up"
    /\ next_uuid' = next_uuid + 1
    /\ call' = [call EXCEPT ![c] = PendingCall(next_uuid + 1, request[c].view)]
    /\ cpc' = [cpc EXCEPT ![c] = "insert"]
    /\ Access(c, "insert")
    /\ UNCHANGED <<streaming, request, pending_calls, ret, yielded, stops,
                   errors, lookups, target, receive_thread, to_server,
                   to_client, serverVars, sent, transportVars, eventVars,
                   notLockVars, rlock>>

\* the assignment is done
call_sync_inserted(c) ==
    /\ cpc[c] = "insert"
    /\ pending_calls' = DictSet(pending_calls, call[c].id, c)
    /\ cpc' = [cpc EXCEPT ![c] = "send"]
    /\ Access(c, "none")
    /\ UNCHANGED <<streaming, request, call, next_uuid, ret, yielded, stops,
                   errors, lookups, target, receive_thread, to_server,
                   to_client, serverVars, sent, transportVars, eventVars,
                   notLockVars, rlock>>

\* send_raw: with self.rlock
send_raw_acquire(c) ==
    /\ cpc[c] = "send"
    /\ rlock = Nobody
    /\ rlock' = c
    /\ cpc' = [cpc EXCEPT ![c] = "locked"]
    /\ UNCHANGED <<streaming, request, call, pending_calls, next_uuid, ret,
                   yielded, stops, errors, lookups, target, receive_thread,
                   to_server, to_client, serverVars, sent, transportVars,
                   eventVars, notLockVars, accessing>>

\* send_raw: self.transport.send(data, fds), and the lock is left
send_raw_release(c) ==
    /\ cpc[c] = "locked"
    /\ ToServer(send_call(call[c].id, request[c]))
    /\ rlock' = Nobody
    /\ cpc' = [cpc EXCEPT ![c] = "wait"]
    /\ UNCHANGED <<streaming, request, call, pending_calls, next_uuid, ret,
                   yielded, stops, errors, lookups, target, receive_thread,
                   to_client, serverVars, sent, transportVars, eventVars,
                   notLockVars, accessing>>

\* on_rpc_response: the receive thread reaches
\* if id in self.pending_calls.keys()
on_rpc_response_lookup ==
    /\ Inbound("response")
    /\ accessing[ReceiveThread] = "none"
    /\ Access(ReceiveThread, "lookup")
    /\ UNCHANGED <<rpcVars, eventVars, notLockVars, rlock>>

\* on_rpc_response from the lookup to del self.pending_calls[str(call.id)]
on_rpc_response_deleted ==
    /\ Inbound("response")
    /\ accessing[ReceiveThread] = "lookup"
    /\ LET m == Head(to_client)
       IN IF m.id \in DOMAIN pending_calls
          THEN LET c == LookupCall(m.id)
               IN /\ call' = [call EXCEPT ![c].result = m.args,
                                          ![c].ready = TRUE]
                  /\ pending_calls' = DictDel(pending_calls, call[c].id)
                  /\ UNCHANGED errors
          ELSE /\ error_callback(SPURIOUS_RPC_RESPONSE(m.id))
               /\ UNCHANGED <<call, pending_calls>>
    /\ to_client' = Tail(to_client)
    /\ Access(ReceiveThread, "none")
    /\ UNCHANGED <<streaming, request, transportVars, stops, cpc, next_uuid,
                   ret, yielded, lookups, target, receive_thread, to_server,
                   serverVars, sent, eventVars, notLockVars, rlock>>

\* ------------------------------------------------ transports: receive loops
\* fobj.read(n) / xrecvmsg(sock, n): up to n words of what is left
Read(n) == SubSeq(wire, 1, IF n < Len(wire) THEN n ELSE Len(wire))
Rest(n) == SubSeq(wire, (IF n < Len(wire) THEN n ELSE Len(wire)) + 1, Len(wire))

\* The loop is left.
Break(r) == [r EXCEPT !.state = "ended"]

\* One pass of a receive loop; on_wrong_magic is what the loop does with a
\* header whose magic is wrong: "continue" or "break", and refusals are the
\* wrong magics it closes on whatever it does with the others.
recv_pass(on_wrong_magic, refusals) ==
    LET header == Read(HeaderLen)
        seen == [rx EXCEPT !.headers = IF rx.bad THEN @ + 1 ELSE @]
    IN IF Len(header) # HeaderLen
       THEN /\ rx' = Break(rx)
            /\ wire' = Rest(HeaderLen)
       ELSE IF header[1] # Magic
       THEN /\ rx' = IF on_wrong_magic = "break" \/ header[1] \in refusals
                     THEN Break([seen EXCEPT !.bad = TRUE])
                     ELSE [seen EXCEPT !.bad = TRUE]
            /\ wire' = Rest(HeaderLen)
       ELSE LET length == header[2]
                after == Rest(HeaderLen)
                message == SubSeq(after, 1, ReadLen(length, Len(after)))
            IN /\ wire' = SubSeq(after, Len(message) + 1, Len(after))
               /\ rx' = IF message = <<>> \/ Word(0, Len(message)) # length
                        THEN Break(seen)
                        ELSE [seen EXCEPT
                                 !.delivered = Append(@, message),
                                 !.late = IF rx.bad THEN @ + 1 ELSE @]

\* ClientTransportSSH.recv
ClientTransportSSH_recv ==
    /\ rx.kind = "ssh" /\ rx.state = "running"
    /\ recv_pass("continue", {Denied})
    /\ UNCHANGED <<rpcVars, eventVars, notFrameVars>>

\* ClientTransportFD.recv
ClientTransportFD_recv ==
    /\ rx.kind = "fd" /\ rx.state = "running"
    /\ recv_pass("continue", {})
    /\ UNCHANGED <<rpcVars, eventVars, notFrameVars>>

\* ClientTransportUnix.recv
ClientTransportUnix_recv ==
    /\ rx.kind = "unix" /\ rx.state = "running"
    /\ recv_pass("continue", {})
    /\ UNCHANGED <<rpcVars, eventVars, notFrameVars>>

\* UnixSocketHandler.handle_connection
handle_connection ==
    /\ rx.kind = "unix_server" /\ rx.state = "running"
    /\ recv_pass("break", {})
    /\ UNCHANGED <<rpcVars, eventVars, notFrameVars>>

\* After the loop: doclose(), sock.close(), or the handler's close().
recv_close ==
    /\ rx.state = "ended"
    /\ rx' = [rx EXCEPT !.state = "closed"]
    /\ UNCHANGED <<rpcVars, eventVars, notFrameVars, wire>>

\* ------------------------------ run_async of on_rpc_continue, step by step
\* The same task with the threads of the pool interleaving: each read of
\* self.seqno and self.cache is a step, and advance holds self.lock from
\* next(self.iter) to its return.
ChunkTask(w) ==
    [tid |-> w.tid, id |-> w.id, seqno |-> w.seqno, pc |-> "cache",
     how |-> "none", val |-> <<>>]

ChunkStep(t, u) == chunk_tasks' = (chunk_tasks \ {t}) \cup {u}

\* it = self.pending_iterators[id]; a KeyError ends the task
chunk_get(w) ==
    /\ w \in workers /\ w.type = "continue" /\ w.pc = "run"
    /\ workers' = workers \ {w}
    /\ chunk_tasks' = IF w.id \in pending_iterators
                      THEN chunk_tasks \cup {ChunkTask(w)}
                      ELSE chunk_tasks
    /\ UNCHANGED <<streaming, request, clientVars, to_server, to_client,
                   pending_iterators, iterators, spawned, continues, sent,
                   transportVars, eventVars, notPoolVars, it_lock>>

\* if seqno in self.cache: return self.cache[seqno]
chunk_cache(t) ==
    /\ t \in chunk_tasks /\ t.pc = "cache"
    /\ LET it == iterators[t.id]
       IN IF t.seqno \in DOMAIN it.cache
          THEN ChunkStep(t, [t EXCEPT !.pc = "send", !.how = "value",
                                      !.val = it.cache[t.seqno]])
          ELSE ChunkStep(t, [t EXCEPT !.pc = "while"])
    /\ UNCHANGED <<rpcVars, eventVars, notPoolVars, it_lock>>

\* while self.seqno < seqno; falling off the loop returns None
chunk_while(t) ==
    /\ t \in chunk_tasks /\ t.pc = "while"
    /\ IF iterators[t.id].seqno < t.seqno
       THEN ChunkStep(t, [t EXCEPT !.pc = "advance"])
       ELSE ChunkStep(t, [t EXCEPT !.pc = "send", !.how = "none",
                                   !.val = <<>>])
    /\ UNCHANGED <<rpcVars, eventVars, notPoolVars, it_lock>>

\* advance: with self.lock, next(self.iter) and self.seqno += 1, or
\* StopIteration, which leaves the lock
chunk_advance(t) ==
    /\ t \in chunk_tasks /\ t.pc = "advance"
    /\ it_lock[t.id] = 0
    /\ LET it == iterators[t.id]
           a == advance(it)
       IN IF a.stop
          THEN /\ ChunkStep(t, [t EXCEPT !.pc = "send", !.how = "stop",
                                          !.val = <<>>])
               /\ iterators' = [iterators EXCEPT ![t.id] = a.it]
               /\ UNCHANGED it_lock
          ELSE /\ ChunkStep(t, [t EXCEPT !.pc = "store", !.val = a.val])
               /\ iterators' = [iterators EXCEPT
                                    ![t.id] = [a.it EXCEPT !.cache = it.cache]]
               /\ it_lock' = [it_lock EXCEPT ![t.id] = t.tid]
    /\ UNCHANGED <<streaming, request, clientVars, to_server, to_client,
                   pending_iterators, workers, spawned, continues, sent,
                   transportVars, eventVars, notPoolVars>>

\* advance: if self.view: self.cache[self.seqno] = val; return, leaving the
\* lock
chunk_store(t) ==
    /\ t \in chunk_tasks /\ t.pc = "store"
    /\ LET it == iterators[t.id]
       IN iterators' = [iterators EXCEPT ![t.id].cache =
                            IF it.view THEN DictSet(it.cache, it.seqno, t.val)
                            ELSE it.cache]
    /\ it_lock' = [it_lock EXCEPT ![t.id] = 0]
    /\ ChunkStep(t, [t EXCEPT !.pc = "if"])
    /\ UNCHANGED <<streaming, request, clientVars, to_server, to_client,
                   pending_iterators, workers, spawned, continues, sent,
                   transportVars, eventVars, notPoolVars>>

\* if self.seqno == seqno: return ret
chunk_if(t) ==
    /\ t \in chunk_tasks /\ t.pc = "if"
    /\ IF iterators[t.id].seqno = t.seqno
       THEN ChunkStep(t, [t EXCEPT !.pc = "send", !.how = "value"])
       ELSE ChunkStep(t, [t EXCEPT !.pc = "while"])
    /\ UNCHANGED <<rpcVars, eventVars, notPoolVars, it_lock>>

\* send_fragment(id, seqno, fragment), or on StopIteration send_end and, for
\* a non-view iterator, send_close
chunk_send(t) ==
    /\ t \in chunk_tasks /\ t.pc = "send"
    /\ LET view == iterators[t.id].view
       IN /\ CASE t.how = "stop" -> ToClient(EndFrames(t.id, t.seqno, view))
               [] t.how = "value" ->
                    ToClient(<<send_fragment(t.id, t.seqno, JList(t.val))>>)
               [] OTHER -> ToClient(<<send_fragment(t.id, t.seqno, JNone)>>)
          /\ IF t.how = "stop" /\ ~view
             THEN ChunkStep(t, [t EXCEPT !.pc = "del"])
             ELSE chunk_tasks' = chunk_tasks \ {t}
    /\ UNCHANGED <<streaming, request, clientVars, to_server, serverVars,
                   transportVars, eventVars, notPoolVars, it_lock>>

\* del self.pending_iterators[id]
chunk_del(t) ==
    /\ t \in chunk_tasks /\ t.pc = "del"
    /\ pending_iterators' = pending_iterators \ {t.id}
    /\ chunk_tasks' = chunk_tasks \ {t}
    /\ UNCHANGED <<streaming, request, clientVars, to_server, to_client,
                   iterators, workers, spawned, continues, sent,
                   transportVars, eventVars, notPoolVars, it_lock>>

\* ------------------------------------------------- events: the subscriber
\* A frame of the events namespace that carries masks.
EventsFrame(name, masks) == [name |-> name, masks |-> masks]

\* Connection.subscribe_events(mask), called by the application
subscribe_events(mask) ==
    /\ transport.link = "up"
    /\ nsubs < MaxSubs
    /\ nsubs' = nsubs + 1
    /\ subs' = Append(subs, EventsFrame("subscribe", {mask}))
    /\ UNCHANGED <<extVars, rpcVars, senderVars, events, recipientVars, event_thread,
                   waiter>>

\* Connection.unsubscribe_events(mask), called by the application
unsubscribe_events(mask) ==
    /\ transport.link = "up"
    /\ nsubs < MaxSubs
    /\ nsubs' = nsubs + 1
    /\ subs' = Append(subs, EventsFrame("unsubscribe", {mask}))
    /\ UNCHANGED <<extVars, rpcVars, senderVars, events, recipientVars, event_thread,
                   waiter>>

\* The handlers registered for any name.
Registered ==
    {h \in Handlers : \E n \in EventNames :
                          \E i \in 1..Len(event_handlers[n]) :
                              event_handlers[n][i] = h}

\* Connection.register_event_handler(name, h): append the handler, subscribe.
register_event_handler(name, h) ==
    /\ transport.link = "up"
    /\ h \in {"h_sync", "h_pool"} \ Registered
    /\ event_handlers' = [event_handlers EXCEPT ![name] = Append(@, h)]
    /\ subs' = Append(subs, EventsFrame("subscribe", {name}))
    /\ UNCHANGED <<extVars, rpcVars, senderVars, nsubs, events, event_queue, pool,
                   handled, event_thread, waiter>>

\* ----------------------------------------------------- events: the emitter
\* ServerConnection.on_events_subscribe
on_events_subscribe ==
    /\ subs # <<>> /\ Head(subs).name = "subscribe"
    /\ subs' = Tail(subs)
    /\ event_masks' = event_masks \cup Head(subs).masks
    /\ UNCHANGED <<extVars, rpcVars, emitted, nsubs, events, recipientVars, event_thread,
                   waiter>>

\* ServerConnection.on_events_unsubscribe
on_events_unsubscribe ==
    /\ subs # <<>> /\ Head(subs).name = "unsubscribe"
    /\ subs' = Tail(subs)
    /\ event_masks' = event_masks \ Head(subs).masks
    /\ UNCHANGED <<extVars, rpcVars, emitted, nsubs, events, recipientVars, event_thread,
                   waiter>>

\* The frames of the events namespace that carry events.
EventFrame(ev) == [name |-> "event", events |-> <<ev>>]
EventBurst(evs) == [name |-> "event_burst", events |-> evs]

\* What the emitter records of one emit_event: the event, whether it was
\* sent, and whether fn() of exec_and_wait_for_event had started by then.
Emitted(ev, was_sent) ==
    [ev |-> ev, sent |-> was_sent, late |-> waiter.pc \in {"fn", "waiting"}]

\* ServerConnection.emit_event(name, params): send_event if any mask matches
emit_event(name) ==
    LET ev == Event(name, Len(emitted) + 1)
        any == \E i \in event_masks : match_event(name, i)
    IN /\ transport.link = "up"
       /\ Len(emitted) < MaxEvents
       /\ events' = IF any THEN Append(events, EventFrame(ev)) ELSE events
       /\ emitted' = Append(emitted, Emitted(ev, any))
       /\ UNCHANGED <<extVars, rpcVars, event_masks, subs, nsubs, recipientVars,
                      event_thread, waiter>>

\* Burst mode: two events are accumulated and flushed as one event_burst;
\* the events that no mask matches are left out.
emit_event_burst(name1, name2) ==
    LET ev1 == Event(name1, Len(emitted) + 1)
        ev2 == Event(name2, Len(emitted) + 2)
        any(ev) == \E i \in event_masks : match_event(ev.name, i)
        evs == SelectSeq(<<ev1, ev2>>, any)
    IN /\ transport.link = "up"
       /\ Len(emitted) + 2 <= MaxEvents
       /\ events' = IF evs # <<>> THEN Append(events, EventBurst(evs))
                     ELSE events
       /\ emitted' = emitted \o <<Emitted(ev1, any(ev1)), Emitted(ev2, any(ev2))>>
       /\ UNCHANGED <<extVars, rpcVars, event_masks, subs, nsubs, recipientVars,
                      event_thread, waiter>>

\* ---------------------------------------------------- events: the recipient
\* Connection.on_events_event: the receive thread queues the event.
on_events_event ==
    /\ events # <<>> /\ Head(events).name = "event"
    /\ events' = Tail(events)
    /\ event_queue' = Append(event_queue, Head(events).events[1])
    /\ UNCHANGED <<extVars, rpcVars, senderVars, subs, nsubs, event_handlers, pool,
                   handled, event_thread, waiter>>

\* Connection.on_events_event_burst: the receive thread queues each event.
on_events_event_burst ==
    /\ events # <<>> /\ Head(events).name = "event_burst"
    /\ events' = Tail(events)
    /\ event_queue' = event_queue \o Head(events).events
    /\ UNCHANGED <<extVars, rpcVars, senderVars, subs, nsubs, event_handlers, pool,
                   handled, event_thread, waiter>>

\* __process_events: name, args = self.event_queue.get()
process_events_get ==
    /\ event_thread.state = "idle"
    /\ event_queue # <<>>
    /\ Head(event_queue) # StopIterationItem
    /\ event_queue' = Tail(event_queue)
    /\ event_thread' = [state |-> "got", ev |-> Head(event_queue)]
    /\ UNCHANGED <<extVars, rpcVars, senderVars, subs, nsubs, events, event_handlers,
                   pool, handled, waiter>>

\* The handlers of a list, as a set.
HandlersIn(list) == {list[i] : i \in 1..Len(list)}

\* __process_events, with the event_distribution_lock: each handler of the
\* name is called if it is sync, spawned on the worker pool if not.
process_events_dispatch ==
    LET ev == event_thread.ev
        hs == HandlersIn(event_handlers[ev.name])
    IN /\ event_thread.state = "got"
       /\ waiter.pc # "fn"
       /\ handled' = [h \in Handlers |->
                        IF h \in hs /\ IsSync(h) THEN Append(handled[h], ev)
                        ELSE handled[h]]
       /\ pool' = pool \cup {[h |-> h, ev |-> ev] : h \in {g \in hs : ~IsSync(g)}}
       /\ event_thread' = [event_thread EXCEPT !.state = "idle"]
       /\ UNCHANGED <<extVars, rpcVars, senderVars, subs, nsubs, events, event_queue,
                      event_handlers, waiter>>

\* The call a sync handler makes is made by the first caller.
HandlerCaller == 1

\* The event the worker holds has a sync handler, whose body is
\* conn.call_sync(method, arg, timeout=None) on the connection itself.
HandlerCalls ==
    /\ event_thread.state = "got"
    /\ \E h \in HandlersIn(event_handlers[event_thread.ev.name]) : IsSync(h)
    /\ transport.link = "up"
    /\ cpc[HandlerCaller] = "idle"

\* __process_events calls the sync handler, which is in call_sync up to the
\* wait: the PendingCall installed, the call frame sent.
handler_call_sync ==
    /\ HandlerCalls
    /\ request[HandlerCaller] # NoRequest
    /\ LET id == next_uuid + 1
           c == HandlerCaller
       IN /\ next_uuid' = id
          /\ call' = [call EXCEPT ![c] = PendingCall(id, FALSE)]
          /\ pending_calls' = DictSet(pending_calls, id, c)
          /\ ToServer(send_call(id, request[c]))
          /\ cpc' = [cpc EXCEPT ![c] = "wait"]
    /\ event_thread' = [event_thread EXCEPT !.state = "in_call"]
    /\ UNCHANGED <<streaming, request, transportVars, errors, stops, ret,
                   yielded, lookups, target, receive_thread, to_client,
                   serverVars, sent, senderVars, subs, nsubs, events,
                   recipientVars, waiter, extVars>>

\* wait_for_call with timeout=None returns once call.ready is set; the
\* handler returns or raises, and the worker goes on with the other handlers
\* of the event.
handler_call_returns ==
    LET ev == event_thread.ev
        hs == HandlersIn(event_handlers[ev.name])
        c == HandlerCaller
    IN /\ event_thread.state = "in_call"
       /\ call[c].ready
       /\ IF call[c].result = JNone /\ call[c].error # NoError
          THEN /\ ret' = [ret EXCEPT ![c] = RpcException(call[c].error)]
               /\ cpc' = [cpc EXCEPT ![c] = "raised"]
          ELSE /\ ret' = [ret EXCEPT ![c] = Returned(call[c].result)]
               /\ cpc' = [cpc EXCEPT ![c] = "returned"]
       /\ handled' = [h \in Handlers |->
                        IF h \in hs /\ IsSync(h) THEN Append(handled[h], ev)
                        ELSE handled[h]]
       /\ pool' = pool \cup {[h |-> h, ev |-> ev] : h \in {g \in hs : ~IsSync(g)}}
       /\ event_thread' = [event_thread EXCEPT !.state = "idle"]
       /\ UNCHANGED <<streaming, request, transportVars, errors, stops, call,
                      pending_calls, next_uuid, yielded, lookups, target,
                      receive_thread, to_server, to_client, serverVars, sent,
                      senderVars, subs, nsubs, events, event_queue,
                      event_handlers, waiter, extVars>>

\* A thread of the worker pool runs h(args); the handler of
\* exec_and_wait_for_event sets done, match_fn accepting the event.
run_handler(t) ==
    /\ t \in pool
    /\ pool' = pool \ {t}
    /\ handled' = [handled EXCEPT ![t.h] = Append(@, t.ev)]
    /\ waiter' = IF t.h = "handler" THEN [waiter EXCEPT !.done = TRUE]
                  ELSE waiter
    /\ UNCHANGED <<extVars, rpcVars, senderVars, subs, nsubs, events, event_queue,
                   event_handlers, event_thread>>

\* __process_events: name, args = self.event_queue.get() on the sentinel; the
\* unpacking raises, the bare except prints and the thread ends.
process_events_stop ==
    /\ event_thread.state = "idle"
    /\ event_queue # <<>>
    /\ Head(event_queue) = StopIterationItem
    /\ event_queue' = Tail(event_queue)
    /\ event_thread' = [event_thread EXCEPT !.state = "exited"]
    /\ UNCHANGED <<extVars, rpcVars, senderVars, subs, nsubs, events,
                   event_handlers, pool, handled, waiter>>

\* ------------------------------------------------------ events: on_close
\* The calls drop_pending_calls completes, all at once.
Dropped ==
    [c \in Callers |->
        IF call[c].id \in DOMAIN pending_calls
        THEN [call[c] EXCEPT !.result = JNone, !.error = ECONNABORTED,
                             !.ready = TRUE]
        ELSE call[c]]

\* The receive loop of the unix server handler has ended and calls
\* ServerConnection.on_close, which starts with Connection.on_close:
\* self.event_queue.put(StopIteration)
on_close_put ==
    /\ transport.kind = "unix_server" /\ transport.link = "down"
    /\ closer.pc = "none"
    /\ event_queue' = Append(event_queue, StopIterationItem)
    /\ closer' = Closer("join")
    /\ UNCHANGED <<rpcVars, senderVars, subs, nsubs, events, event_handlers,
                   pool, handled, event_thread, waiter, notStopVars>>

\* Connection.on_close: self.event_thread.join() returns
on_close_join ==
    /\ closer.pc = "join"
    /\ event_thread.state = "exited"
    /\ closer' = Closer("drop")
    /\ UNCHANGED <<rpcVars, eventVars, notStopVars>>

\* ServerConnection.on_close after the join: drop_pending_calls() and
\* parent.connections.remove(self)
on_close_drop ==
    /\ closer.pc = "drop"
    /\ call' = Dropped
    /\ pending_calls' = <<>>
    /\ upcalls' = [upcalls EXCEPT !.on_close = @ + 1, !.drops = @ + 1]
    /\ transport' = [transport EXCEPT !.link = "stopped"]
    /\ receive_thread' = "stopped"
    /\ closer' = Closer("done")
    /\ UNCHANGED <<streaming, request, cpc, next_uuid, ret, yielded, stops,
                   errors, lookups, target, to_server, to_client, serverVars,
                   sent, dropping, outage, eventVars, notStopVars>>

CONNECTION_CLOSED == ClientError("CONNECTION_CLOSED", 0, "", "")

\* The ws transport's closed() calls Client.on_close: drop_pending_calls()
\* and error_callback(CONNECTION_CLOSED) unless disconnecting.
client_on_close ==
    /\ transport.kind = "ws" /\ transport.link = "down"
    /\ closer.pc = "none"
    /\ call' = Dropped
    /\ pending_calls' = <<>>
    /\ IF outage.why = "close" THEN UNCHANGED errors
       ELSE error_callback(CONNECTION_CLOSED)
    /\ upcalls' = [upcalls EXCEPT !.on_close = @ + 1, !.drops = @ + 1]
    /\ transport' = [transport EXCEPT !.link = "stopped"]
    /\ receive_thread' = "stopped"
    /\ closer' = Closer("done")
    /\ UNCHANGED <<streaming, request, cpc, next_uuid, ret, yielded, stops,
                   lookups, target, to_server, to_client, serverVars,
                   sent, dropping, outage, eventVars, notStopVars>>

\* ------------------------------------------- events: waiting for an event
\* The event exec_and_wait_for_event and test_or_wait_for_event wait for.
WaitedEvent == ServerStarted

\* exec_and_wait_for_event / test_or_wait_for_event: subscribe_events(event)
wait_subscribe(how) ==
    /\ transport.link = "up"
    /\ waiter.pc = "start"
    /\ waiter' = [waiter EXCEPT !.pc = "subscribed", !.how = how]
    /\ subs' = Append(subs, EventsFrame("subscribe", {WaitedEvent}))
    /\ UNCHANGED <<extVars, rpcVars, senderVars, nsubs, events, recipientVars,
                   event_thread>>

\* With the event_distribution_lock taken, fn() starts, or
\* initial_condition_fn() returns false.
wait_fn ==
    /\ waiter.pc = "subscribed"
    /\ waiter' = [waiter EXCEPT !.pc = "fn"]
    /\ UNCHANGED <<extVars, rpcVars, senderVars, subs, nsubs, events, recipientVars,
                   event_thread>>

\* test_or_wait_for_event: initial_condition_fn() returns true.
wait_initial_condition ==
    /\ waiter.pc = "subscribed" /\ waiter.how = "test"
    /\ waiter' = [waiter EXCEPT !.pc = "returned"]
    /\ UNCHANGED <<extVars, rpcVars, senderVars, subs, nsubs, events, recipientVars,
                   event_thread>>

\* fn() has returned: register_event_handler(event, handler), and the lock
\* is released.
wait_register ==
    /\ waiter.pc = "fn"
    /\ waiter' = [waiter EXCEPT !.pc = "waiting"]
    /\ event_handlers' = [event_handlers EXCEPT ![WaitedEvent] =
                              Append(@, "handler")]
    /\ subs' = Append(subs, EventsFrame("subscribe", {WaitedEvent}))
    /\ UNCHANGED <<extVars, rpcVars, senderVars, nsubs, events, event_queue, pool,
                   handled, event_thread>>

\* done.wait() returns: unregister_event_handler(event, handler)
wait_done ==
    /\ waiter.pc = "waiting" /\ waiter.done
    /\ waiter' = [waiter EXCEPT !.pc = "returned"]
    /\ event_handlers' = [event_handlers EXCEPT ![WaitedEvent] =
                              SelectSeq(@, LAMBDA h : h # "handler")]
    /\ UNCHANGED <<extVars, rpcVars, senderVars, subs, nsubs, events, event_queue, pool,
                   handled, event_thread>>

\* --------------------------------------------- file descriptors in a frame
\* Connection.pack: fds = list(collect_fds(args)); args, rewritten in place,
\* is encoded, and send_raw hands both to the transport.
pack ==
    /\ ~packed.done
    /\ LET r == collect_fds(pack_args, 0)
       IN packed' = [obj |-> r.obj, fds |-> r.fds, done |-> TRUE]
    /\ UNCHANGED <<rpcVars, eventVars, notFdVars, pack_args, unpacked>>

\* The ancillary list the receiving transport hands to on_message: the open
\* files of the descriptors sent, in the order sent, or nothing when the
\* transport carries no descriptors.
Ancillary(fds, carried) ==
    IF carried THEN [i \in 1..Len(fds) |-> fds[i].fd] ELSE <<>>

\* Connection.on_message: replace_fds(message, fds)
on_message_fds(carried) ==
    /\ packed.done /\ ~unpacked.done
    /\ LET fds == Ancillary(packed.fds, carried)
       IN unpacked' = [obj |-> replace_fds(packed.obj, fds), fds |-> fds,
                       done |-> TRUE]
    /\ UNCHANGED <<rpcVars, eventVars, notFdVars, pack_args, packed>>

\* ------------------------------------------------------------- the Server
\* ServerConnection.on_open, called by the handler thread of the connection:
\* Connection.on_open, then parent.connections.append(self).
server_on_open(k) ==
    /\ conn_state[k] = "new"
    /\ conn_state' = [conn_state EXCEPT ![k] = "open"]
    /\ connections' = Append(connections, k)
    /\ UNCHANGED <<rpcVars, eventVars, notSrvVars, conn_masks, conn_sent,
                   broadcast>>

\* list.remove(x): the list without the first x.
RECURSIVE remove(_, _)
remove(list, x) ==
    IF list = <<>> THEN <<>>
    ELSE IF Head(list) = x THEN Tail(list)
    ELSE <<Head(list)>> \o remove(Tail(list), x)

\* ServerConnection.on_close, called by the handler thread when its receive
\* loop ends: Connection.on_close, drop_pending_calls, then
\* parent.connections.remove(self).
server_on_close(k) ==
    /\ conn_state[k] = "open"
    /\ conn_state' = [conn_state EXCEPT ![k] = "closed"]
    /\ connections' = remove(connections, k)
    /\ broadcast' = [broadcast EXCEPT !.stable = @ \ {k}]
    /\ UNCHANGED <<rpcVars, eventVars, notSrvVars, conn_masks, conn_sent>>

\* ServerConnection.on_events_subscribe of connection k
server_on_events_subscribe(k, mask) ==
    /\ conn_state[k] = "open"
    /\ mask \notin conn_masks[k]
    /\ conn_masks' = [conn_masks EXCEPT ![k] = @ \cup {mask}]
    /\ UNCHANGED <<rpcVars, eventVars, notSrvVars, connections, conn_state,
                   conn_sent, broadcast>>

\* Server.broadcast_event(event, args) is called: the for loop starts.  The
\* model notes the connections that are open now; on_close strikes out those
\* that close before the loop has ended.
broadcast_event(name) ==
    /\ broadcast.pc = "idle"
    /\ broadcast.n < MaxBroadcasts
    /\ broadcast' = [pc |-> "for", i |-> 0, name |-> name, n |-> broadcast.n + 1,
                     stable |-> {k \in Conns : conn_state[k] = "open"},
                     delegated |-> {}]
    /\ UNCHANGED <<rpcVars, eventVars, notSrvVars, connections, conn_state,
                   conn_masks, conn_sent>>

\* One round of for i in self.connections: the list iterator yields the
\* item at its index, if the list as it is now has one, and
\* i.emit_event(event, args) sends if a mask of that connection matches.
broadcast_event_next ==
    /\ broadcast.pc = "for"
    /\ IF broadcast.i < Len(connections)
       THEN LET k == connections[broadcast.i + 1]
            IN /\ broadcast' = [broadcast EXCEPT !.i = @ + 1,
                                                  !.delegated = @ \cup {k}]
               /\ conn_sent' = [conn_sent EXCEPT ![k] =
                     IF \E mask \in conn_masks[k] : match_event(broadcast.name, mask)
                     THEN Append(@, broadcast.name) ELSE @]
       ELSE /\ broadcast' = [broadcast EXCEPT !.pc = "idle"]
            /\ UNCHANGED conn_sent
    /\ UNCHANGED <<rpcVars, eventVars, notSrvVars, connections, conn_state,
                   conn_masks>>

\* -------------------------------------------------------------------- Next
Next ==
    \/ \E c \in Callers : call_sync(c)
    \/ \E c \in Callers : wait_for_call(c)
    \/ \E c \in Callers : iterator_next(c)
    \/ \E c \in Callers : iterator_continued(c)
    \/ \E c \in Callers : iterator_get(c)
    \/ \E c \in Callers, item \in 0..(MaxLen - 1) : view_getitem(c, item)
    \/ \E c \in Callers : view_continued(c)
    \/ \E c \in Callers : abort_call(c)
    \/ \E c \in Callers : abort_returned(c)
    \/ on_rpc_response
    \/ on_rpc_fragment
    \/ on_rpc_end
    \/ on_rpc_close
    \/ on_rpc_error
    \/ on_rpc_call
    \/ on_rpc_continue
    \/ on_rpc_abort
    \/ \E w \in workers : run_async_call(w)
    \/ \E w \in workers : run_async_continue(w)
    \/ \E w \in workers : run_async_del(w)

Spec == Init /\ [][Next]_vars

\* A streamed call and continues of any seqno for it, served one at a time.
\* Calls with a callback and calls without, answered by the peer; each
\* callback returns what it likes.
NextAsync ==
    \/ \E c \in Callers : call_async(c)
    \/ \E c \in Callers : call_sync(c)
    \/ \E c \in Callers : wait_for_call(c)
    \/ on_rpc_call
    \/ on_rpc_continue
    \/ \E w \in workers : run_async_call(w)
    \/ \E w \in workers : run_async_continue(w)
    \/ \E w \in workers : run_async_del(w)
    \/ on_rpc_response_callback
    \/ \E returned \in BOOLEAN : on_rpc_fragment_callback(returned)
    \/ on_rpc_end_callback
    \/ on_rpc_close
    \/ on_rpc_error_callback

SpecAsync == InitAsync /\ [][NextAsync]_vars

\* A streamed call consumed while the peer goes away: frames are sent and
\* taken by the serving side while the transport is up, those on their way
\* to the caller are still delivered until its receive loop ends.
NextStreamClose ==
    \/ connect
    \/ \E c \in Callers : call_sync(c)
    \/ \E c \in Callers : wait_for_call(c)
    \/ \E c \in Callers : transport.link = "up" /\ iterator_next(c)
    \/ \E c \in Callers : iterator_continued(c)
    \/ \E c \in Callers : iterator_get(c)
    \/ \E c \in Callers, item \in 0..(MaxLen - 1) :
            transport.link = "up" /\ view_getitem(c, item)
    \/ \E c \in Callers : view_continued(c)
    \/ \E c \in Callers : transport.link = "up" /\ abort_call(c)
    \/ \E c \in Callers : abort_returned(c)
    \/ on_rpc_fragment
    \/ on_rpc_end
    \/ on_rpc_close
    \/ transport.link = "up" /\ on_rpc_call
    \/ transport.link = "up" /\ on_rpc_continue
    \/ transport.link = "up" /\ on_rpc_abort
    \/ \E w \in workers : run_async_call(w)
    \/ \E w \in workers : run_async_continue(w)
    \/ \E w \in workers : run_async_del(w)
    \/ peer_eof
    \/ recv_stops
    \/ drop_pending_calls
    \/ sender_on_close

\* Every thread that can run does run in the end.
SpecStreamClose ==
    InitStreamClose /\ [][NextStreamClose]_vars /\ WF_vars(NextStreamClose)

\* Threads that look up different indices of one view at the same time, the
\* peer answering every continue.
NextLookers ==
    \/ \E c \in Callers : call_sync(c)
    \/ \E c \in Callers : wait_for_call(c)
    \/ \E t \in Lookers, item \in 0..(MaxLen - 1) : looker_getitem(t, item)
    \/ \E t \in Lookers : looker_wakes(t)
    \/ on_rpc_fragment_notify
    \/ on_rpc_end_notify
    \/ on_rpc_call
    \/ on_rpc_continue
    \/ \E w \in workers : run_async_call(w)
    \/ \E w \in workers : run_async_continue(w)

\* Every thread that can run does run in the end.
SpecLookers == InitLookers /\ [][NextLookers]_vars /\ WF_vars(NextLookers)

NextChunk ==
    \/ \E c \in Callers : call_sync(c)
    \/ on_rpc_call
    \/ on_rpc_continue
    \/ \E w \in workers : run_async_call(w)
    \/ \E w \in workers : run_async_continue(w)
    \/ \E w \in workers : run_async_del(w)
    \/ \E id \in Ids, seqno \in 1..(MaxLen + 1) : peer_continue(id, seqno)

SpecChunk == InitChunk /\ [][NextChunk]_vars

\* A streamed call and pipelined continues for it, their tasks interleaving
\* on the worker pool.
NextPool ==
    \/ \E c \in Callers : call_sync(c)
    \/ on_rpc_call
    \/ on_rpc_continue
    \/ \E w \in workers : run_async_call(w)
    \/ \E id \in Ids : pipelined_continue(id)
    \/ \E w \in workers : chunk_get(w)
    \/ \E t \in chunk_tasks : chunk_cache(t)
    \/ \E t \in chunk_tasks : chunk_while(t)
    \/ \E t \in chunk_tasks : chunk_advance(t)
    \/ \E t \in chunk_tasks : chunk_store(t)
    \/ \E t \in chunk_tasks : chunk_if(t)
    \/ \E t \in chunk_tasks : chunk_send(t)
    \/ \E t \in chunk_tasks : chunk_del(t)

SpecPool == InitChunk /\ [][NextPool]_vars

\* Plain calls, with the accesses to pending_calls and the lock spelled out.
NextLock ==
    \/ \E c \in Callers : call_sync_insert(c)
    \/ \E c \in Callers : call_sync_inserted(c)
    \/ \E c \in Callers : send_raw_acquire(c)
    \/ \E c \in Callers : send_raw_release(c)
    \/ \E c \in Callers : wait_for_call(c)
    \/ on_rpc_response_lookup
    \/ on_rpc_response_deleted
    \/ on_rpc_call
    \/ \E w \in workers : run_async_call(w)

SpecLock == InitLock /\ [][NextLock]_vars

\* A receive loop of one of the four kinds reading a stream of words.
NextFrames ==
    \/ ClientTransportSSH_recv
    \/ ClientTransportFD_recv
    \/ ClientTransportUnix_recv
    \/ handle_connection
    \/ recv_close

SpecFrames == InitFrames /\ [][NextFrames]_vars

\* The calls, handlers and tasks that plain calls exercise.
NextCalls ==
    \/ \E c \in Callers : call_sync(c)
    \/ \E c \in Callers : wait_for_call(c)
    \/ \E c \in Callers : call_timeout(c)
    \/ on_rpc_response
    \/ on_rpc_error
    \/ on_rpc_call
    \/ \E w \in workers : run_async_call(w)

SpecCalls == InitCalls /\ [][NextCalls]_vars

\* Plain calls, and a peer that sends one frame answering none of them.
NextSpurious ==
    \/ \E c \in Callers : call_sync(c)
    \/ \E c \in Callers : wait_for_call(c)
    \/ on_rpc_response
    \/ on_rpc_fragment
    \/ on_rpc_end
    \/ on_rpc_close
    \/ on_rpc_error
    \/ on_rpc_call
    \/ \E w \in workers : run_async_call(w)
    \/ send_stray

SpecSpurious == InitCalls /\ [][NextSpurious]_vars

\* Plain calls and their answers, with invalid messages from the peer in
\* between.
NextInvalid ==
    \/ \E c \in Callers : call_sync(c)
    \/ \E c \in Callers : wait_for_call(c)
    \/ on_rpc_response
    \/ on_rpc_error
    \/ on_rpc_call
    \/ \E w \in workers : run_async_call(w)
    \/ \E kind \in Invalid : send_invalid(kind)
    \/ on_message_invalid
    \/ peer_on_rpc_error

SpecInvalid == InitCalls /\ [][NextInvalid]_vars

\* Plain calls over a transport that connects, fails to send, is closed by
\* either end and stops.
NextClose ==
    \/ connect
    \/ \E c \in Callers : call_sync(c)
    \/ \E c \in Callers : call_sync_unsent(c)
    \/ \E c \in Callers : wait_for_call(c)
    \/ on_rpc_response
    \/ on_rpc_call
    \/ \E w \in workers : run_async_call(w)
    \/ peer_eof
    \/ close
    \/ recv_stops
    \/ drop_pending_calls

SpecClose == InitClose /\ [][NextClose]_vars

\* The client transports that call on_open (ws) and that do not (unix).
EventTransports == {"ws", "unix"}

\* The transports that call on_open and on_close: ws under a Client, the
\* unix server handler under a ServerConnection.
OpenedTransports == {"ws", "unix_server"}

InitStop ==
    /\ Start /\ Unconnected(OpenedTransports) /\ NoEvents /\ NoExt
    /\ ~streaming
    /\ request \in Requests(NumCalls, "none")

InitEvents ==
    /\ Start /\ Unconnected(EventTransports) /\ NoEvents /\ NoExt
    /\ ~streaming
    /\ request \in Requests(NumCalls, "none")

\* Events from a ServerConnection to a Client with a sync handler and a
\* handler run on the worker pool.
NextEvents ==
    \/ connect
    \/ \E mask \in Masks : subscribe_events(mask)
    \/ \E mask \in Masks : unsubscribe_events(mask)
    \/ \E name \in EventNames, h \in Handlers : register_event_handler(name, h)
    \/ on_events_subscribe
    \/ on_events_unsubscribe
    \/ \E name \in EventNames : emit_event(name)
    \/ \E name1, name2 \in EventNames : emit_event_burst(name1, name2)
    \/ on_events_event
    \/ on_events_event_burst
    \/ process_events_get
    \/ process_events_dispatch
    \/ \E t \in pool : run_handler(t)

SpecEvents == InitEvents /\ [][NextEvents]_vars

\* A connection that receives events until its peer goes away or it is
\* closed; the receive thread queues no event once it is in on_close.
NextStop ==
    \/ connect
    \/ \E name \in EventNames, h \in Handlers : register_event_handler(name, h)
    \/ on_events_subscribe
    \/ \E name \in EventNames : emit_event(name)
    \/ closer.pc = "none" /\ on_events_event
    \/ process_events_get
    \/ process_events_dispatch
    \/ process_events_stop
    \/ \E t \in pool : run_handler(t)
    \/ peer_eof
    \/ close
    \/ on_close_put
    \/ on_close_join
    \/ on_close_drop
    \/ client_on_close

SpecStop == InitStop /\ [][NextStop]_vars

\* A ServerConnection whose sync event handler calls the peer back on the
\* same connection; the peer answers, or goes away first.
NextJoin ==
    \/ connect
    \/ \E name \in EventNames, h \in Handlers : register_event_handler(name, h)
    \/ on_events_subscribe
    \/ \E name \in EventNames : emit_event(name)
    \/ closer.pc = "none" /\ on_events_event
    \/ process_events_get
    \/ handler_call_sync
    \/ handler_call_returns
    \/ ~HandlerCalls /\ process_events_dispatch
    \/ process_events_stop
    \/ \E t \in pool : run_handler(t)
    \/ transport.link = "up" /\ on_rpc_call
    \/ \E w \in workers : run_async_call(w)
    \/ closer.pc = "none" /\ on_rpc_response
    \/ peer_eof
    \/ on_close_put
    \/ on_close_join
    \/ on_close_drop

InitJoin ==
    /\ Start /\ Unconnected({"unix_server"}) /\ NoEvents /\ NoExt
    /\ ~streaming
    /\ request \in Requests(NumCalls, "hello")

\* Every thread that can run does run in the end.
SpecJoin == InitJoin /\ [][NextJoin]_vars /\ WF_vars(NextJoin)

\* A Client in exec_and_wait_for_event or test_or_wait_for_event while the
\* peer emits events.
NextWait ==
    \/ connect
    \/ \E how \in {"exec", "test"} : wait_subscribe(how)
    \/ wait_fn
    \/ wait_initial_condition
    \/ wait_register
    \/ wait_done
    \/ on_events_subscribe
    \/ \E name \in EventNames : emit_event(name)
    \/ on_events_event
    \/ process_events_get
    \/ process_events_dispatch
    \/ \E t \in pool : run_handler(t)

SpecWait == InitEvents /\ [][NextWait]_vars

\* The three logins, each answered by the peer with a token or an error.
InitAuth ==
    /\ Start /\ Connected /\ NoEvents /\ NoExt
    /\ ~streaming
    /\ request \in Requests(NumCalls, "login")

NextAuth ==
    \/ \E c \in Callers : login(c)
    \/ \E c \in Callers : login_service_error(c)
    \/ \E c \in Callers : login_returns(c)
    \/ \E granted \in BOOLEAN : on_rpc_auth(granted)
    \/ on_rpc_response
    \/ on_rpc_error

SpecAuth == InitAuth /\ [][NextAuth]_vars

\* A Server whose connections open, subscribe and close while it broadcasts.
InitServer ==
    /\ Start /\ Connected /\ NoEvents /\ NoExt
    /\ ~streaming
    /\ request \in Requests(NumCalls, "none")

NextServer ==
    \/ \E k \in Conns : server_on_open(k)
    \/ \E k \in Conns : server_on_close(k)
    \/ \E k \in Conns, mask \in Masks : server_on_events_subscribe(k, mask)
    \/ \E name \in EventNames : broadcast_event(name)
    \/ broadcast_event_next

SpecServer == InitServer /\ [][NextServer]_vars

\* Two plain calls to a serving side with a call_queue_limit, which has calls
\* of its own pending.
InitLimit ==
    /\ Start /\ Connected /\ NoEvents /\ NoFds /\ NoToken /\ NoServer /\ NoPool /\ NoLock /\ NoFrames /\ NoStop /\ NoCallbacks /\ NoGone /\ NoLookers
    /\ ~streaming
    /\ request \in Requests(NumCalls, "hello")
    /\ call_queue_limit \in 0..MaxLimit
    /\ server_calls = 0

NextLimit ==
    \/ \E c \in Callers : call_sync(c)
    \/ \E c \in Callers : wait_for_call(c)
    \/ on_rpc_response
    \/ on_rpc_error
    \/ on_rpc_call
    \/ \E w \in workers : run_async_call(w)
    \/ server_call_sync
    \/ server_call_answered

SpecLimit == InitLimit /\ [][NextLimit]_vars

\* One frame whose args hold file descriptors, packed and received.
InitFds ==
    /\ Start /\ Connected /\ NoEvents
    /\ ~streaming
    /\ request \in Requests(NumCalls, "none")
    /\ pack_args \in {t \in Trees(MaxDepth) : t.tag \in {"list", "dict"}}
    /\ packed = NotPacked
    /\ unpacked = NotPacked
    /\ NoToken /\ NoServer /\ NoLimit /\ NoPool /\ NoLock /\ NoFrames /\ NoStop /\ NoCallbacks /\ NoGone /\ NoLookers

NextFds ==
    \/ pack
    \/ \E carried \in BOOLEAN : on_message_fds(carried)

SpecFds == InitFds /\ [][NextFds]_vars

\* The emitting ServerConnection alone: what it is subscribed to and what
\* it sends.
NextEmit ==
    \/ connect
    \/ \E mask \in Masks : subscribe_events(mask)
    \/ \E mask \in Masks : unsubscribe_events(mask)
    \/ on_events_subscribe
    \/ on_events_unsubscribe
    \/ \E name \in EventNames : emit_event(name)

SpecEmit == InitEvents /\ [][NextEmit]_vars

\* ============================================================== properties
\* The receive thread of the calling side handles, in this step, a frame of
\* the given kind whose id is in the pending-call table.
Handles(name) ==
    /\ Inbound(name)
    /\ Pending(Head(to_client).id)
    /\ to_client' = Tail(to_client)

\* C1: every call_sync that returns a plain value returns the value of the
\* response frame sent under its own request id; for test.hello(arg) that is
\* 'Hello World, ' + arg.
C1_OwnResponse ==
    \A c \in Callers :
        (ret[c].how = "returned" /\ ret[c].value.tag \in {"str", "list"}) =>
            /\ \E i \in 1..Len(sent[call[c].id]) :
                    /\ sent[call[c].id][i].name = "response"
                    /\ sent[call[c].id][i].args = ret[c].value
            /\ request[c].method = "test.hello" =>
                    ret[c].value = JStr(Hello(request[c].arg))

\* Two hello calls outstanding at once and answered out of order: the later
\* call has returned while the earlier one still waits.
C1_Witness ==
    \E c, d, e \in Callers :
        /\ request[c].method = "test.hello" /\ request[d].method = "test.hello"
        /\ call[c].id = 1 /\ call[d].id = 2 /\ call[e].id = 3
        /\ cpc[c] = "wait" /\ ~call[c].ready
        /\ cpc[e] = "wait"
        /\ ret[d].how = "returned"

\* C2: the table holds one PendingCall per request id, and a response or an
\* error for an id in the table sets ready, records the result or the error
\* payload, and removes the entry.
C2_OnePerId ==
    /\ \A k \in DOMAIN pending_calls : call[pending_calls[k]].id = k
    /\ \A c, d \in Callers :
            (c # d /\ call[c].id # 0) => call[c].id # call[d].id

C2_ResponseStep ==
    Handles("response") =>
        LET m == Head(to_client)
            c == pending_calls[m.id]
        IN /\ call'[c].ready
           /\ call'[c].result = m.args
           /\ m.id \notin DOMAIN pending_calls'

C2_ErrorStep ==
    Handles("error") =>
        LET m == Head(to_client)
            c == pending_calls[m.id]
        IN /\ call'[c].ready
           /\ call'[c].error = m.error
           /\ call'[c].result = JNone
           /\ m.id \notin DOMAIN pending_calls'

C2_TerminalRemoves ==
    /\ []C2_OnePerId
    /\ [][C2_ResponseStep /\ C2_ErrorStep]_vars

\* One call completed by a response and another by an error, both gone from
\* the table.
C2_Witness ==
    \E c, d \in Callers :
        /\ call[c].ready /\ call[c].result.tag = "str" /\ ~Pending(call[c].id)
        /\ call[d].ready /\ call[d].error.code = "ENOENT"
        /\ ~Pending(call[d].id)

\* The frames of the given kinds among those sent under one id, in order.
Frames(id, names) == SelectSeq(sent[id], LAMBDA m : m.name \in names)

\* The frames this step adds to those sent under id.
NewFrames(id) == SubSeq(sent'[id], Len(sent[id]) + 1, Len(sent'[id]))

Sends(id, name) == \E i \in 1..Len(NewFrames(id)) : NewFrames(id)[i].name = name

Streams(c) == request[c].method = "test.iterator" /\ call[c].id # 0

\* C3: once the calling side has received close for a call, the id is in
\* neither the caller's pending-call table nor the sender's pending-iterator
\* table.
C3_CloseFreesBoth ==
    \A c \in Callers :
        call[c].closed =>
            /\ ~Pending(call[c].id)
            /\ call[c].id \notin pending_iterators

\* C4: a non-view StreamingResultIterator yields the values of the source in
\* order, and once exhausted has yielded all of them.
IsPrefix(p, q) == Len(p) <= Len(q) /\ p = SubSeq(q, 1, Len(p))

C4_YieldsSource ==
    \A c \in Callers :
        (Streams(c) /\ ~request[c].view /\ streaming) =>
            /\ IsPrefix(yielded[c], Flatten(request[c].src))
            /\ cpc[c] = "exhausted" => yielded[c] = Flatten(request[c].src)

C6_LookupReturnsKth ==
    \A c \in Callers : \A i \in 1..Len(lookups[c]) :
        LET lk == lookups[c][i]
        IN (lk.item < Len(request[c].src) /\ lk.how # "RuntimeError") =>
              /\ lk.how = "returned"
              /\ lk.val = JList(request[c].src[lk.item + 1])

\* C7: after a lookup of k has returned, a later lookup of the same k on the
\* open view returns the same value and sends no continue.
C7_RepeatFromCache ==
    \A c \in Callers : \A i, j \in 1..Len(lookups[c]) :
        (/\ i < j
         /\ lookups[c][i].item = lookups[c][j].item
         /\ lookups[c][i].how = "returned"
         /\ lookups[c][j].how # "RuntimeError") =>
              /\ lookups[c][j].how = "returned"
              /\ lookups[c][j].val = lookups[c][i].val
              /\ ~lookups[c][j].continued

\* C8, as claimed: for every streaming call the seqnos of its fragment frames
\* strictly increase, and the seqno of the caller's PendingCall never
\* decreases.
StrictlyIncreasing(q) ==
    \A i, j \in 1..Len(q) : i < j => q[i].seqno < q[j].seqno

C8_FragmentsIncrease(calls) ==
    \A c \in calls :
        Streams(c) => StrictlyIncreasing(Frames(call[c].id, {"fragment"}))

C8_SeqnoStep(calls) ==
    \A c \in calls : call'[c].seqno >= call[c].seqno

NonView == {c \in Callers : ~request[c].view}

C9_FlowControl ==
    \A id \in Ids :
        /\ \A i \in 1..Len(sent[id]) :
              (sent[id][i].name = "fragment" /\ sent[id][i].seqno > 1) =>
                  \E k \in 1..Len(continues[id]) :
                      continues[id][k] = sent[id][i].seqno
        /\ Len(Frames(id, {"fragment", "end"})) <= 1 + Len(continues[id])

\* A call for which a fragment beyond the first has been sent.
C9_Witness ==
    \E id \in Ids :
        /\ Len(continues[id]) >= 2
        /\ \E i \in 1..Len(sent[id]) :
              sent[id][i].name = "fragment" /\ sent[id][i].seqno = 3

\* C10: an abort for a registered id closes the source, removes the
\* PendingIterator and replies with close, and no close is ever sent while
\* the iterator is registered or its source open.
C10_AbortStep ==
    (/\ Request_("abort")
     /\ Head(to_server).id \in pending_iterators
     /\ to_server' = Tail(to_server)) =>
        LET id == Head(to_server).id
        IN /\ iterators'[id].state = "closed"
           /\ id \notin pending_iterators'
           /\ Sends(id, "close")

C10_CloseStep ==
    \A id \in Ids :
        Sends(id, "close") =>
            /\ id \notin pending_iterators'
            /\ iterators'[id].state # "open"

C10_AbortThenClose == [][C10_AbortStep /\ C10_CloseStep]_vars

\* C13: an error for a pending id terminates that call and no other: the
\* handler tells error_callback RPC_CALL_ERROR once, removes that entry alone
\* and leaves every other PendingCall as it was; the error recorded on a call
\* is the payload of an error frame sent under its id, and the call_sync
\* waiting for it raises an RpcException carrying that payload.
C13_ErrorStep ==
    Handles("error") =>
        LET m == Head(to_client)
            c == pending_calls[m.id]
        IN /\ \A d \in Callers \ {c} : call'[d] = call[d]
           /\ pending_calls' = DictDel(pending_calls, m.id)
           /\ errors' = errors (+) SetToBag({RPC_CALL_ERROR})

C13_RaiseStep ==
    \A c \in Callers :
        (/\ cpc[c] = "wait" /\ cpc'[c] # "wait"
         /\ call[c].ready /\ call[c].error # NoError) =>
            /\ ret'[c].how = "RpcException"
            /\ ret'[c].error = call[c].error

C13_Payload ==
    \A c \in Callers :
        call[c].error # NoError =>
            /\ call[c].ready /\ call[c].result = JNone
            /\ \E i \in 1..Len(sent[call[c].id]) :
                    /\ sent[call[c].id][i].name = "error"
                    /\ sent[call[c].id][i].error = call[c].error

C13_ErrorTerminatesOne ==
    []C13_Payload /\ [][C13_ErrorStep /\ C13_RaiseStep]_vars

\* A call_sync has raised the peer's error while an earlier streaming call,
\* fragments queued, is still in the table.
C13_Witness ==
    \E c, d \in Callers :
        /\ ret[d] = RpcException(RpcError("ENOENT", "Method not found", None))
        /\ Pending(call[c].id) /\ call[c].id < call[d].id
        /\ call[c].queue # <<>> /\ call[c].seqno >= 1
        /\ CopiesIn(RPC_CALL_ERROR, errors) = 1

\* C14: a response, fragment, end, close or error whose id is not in the
\* pending-call table is reported to the error handler as
\* SPURIOUS_RPC_RESPONSE and discarded, the table left as it was.
C14_SpuriousStep ==
    \A name \in {"response", "fragment", "end", "close", "error"} :
        (/\ Inbound(name)
         /\ ~Pending(Head(to_client).id)
         /\ to_client' = Tail(to_client)) =>
            /\ errors' = errors (+)
                    SetToBag({SPURIOUS_RPC_RESPONSE(Head(to_client).id)})
            /\ pending_calls' = pending_calls
            /\ call' = call

C14_SpuriousReported == [][C14_SpuriousStep]_vars

\* C15: when on_close has run, drop_pending_calls finished, the table is
\* empty and every caller that was blocked in call_sync has been given
\* ECONNABORTED with result None and ready set.
C15_DropStep ==
    (upcalls.on_close = 1 /\ dropping.active /\ ~dropping'.active) =>
        /\ pending_calls' = <<>>
        /\ \A c \in Callers :
              (cpc[c] = "wait" /\ ~call[c].ready) =>
                  /\ call'[c].ready
                  /\ call'[c].result = JNone
                  /\ call'[c].error = ECONNABORTED

C15_CloseDropsAll == [][C15_DropStep]_vars

\* C16: whatever the transport, a send that fails closes the connection, and
\* once the transport has stopped drop_pending_calls has run and none of the
\* calls pending at the failure is left in the table.
C16_FailStep ==
    (outage.why = "" /\ outage'.why = "send") => transport'.link = "down"

C16_Dropped ==
    (/\ outage.why = "send"
     /\ transport.link = "stopped"
     /\ ~dropping.active) =>
        /\ upcalls.drops >= 1
        /\ \A id \in outage.pending : ~Pending(id)

C16_SendFailureDrops == []C16_Dropped /\ [][C16_FailStep]_vars

\* C17: the Connection gets on_open once before any on_message, on_close at
\* most once and no on_message after it, and on_close once the transport has
\* stopped, for whatever reason.
C17_MessageStep ==
    (receive_thread = "running" /\ to_client # <<>>
     /\ to_client' = Tail(to_client)) =>
        /\ upcalls.on_open = 1
        /\ upcalls.on_close = 0

C17_Counts ==
    /\ upcalls.on_open <= 1
    /\ upcalls.on_close <= 1
    /\ transport.link = "stopped" => upcalls.on_close = 1

C17_Upcalls == []C17_Counts /\ [][C17_MessageStep]_vars

\* This step puts a frame of one of the given kinds for id on the way to the
\* serving side.
Requests_(id, names) ==
    /\ Len(to_server') = Len(to_server) + 1
    /\ to_server'[Len(to_server')].id = id
    /\ to_server'[Len(to_server')].name \in names

\* C11: once the calling side has processed close for a call, it sends no
\* further continue or abort for that id, whatever the application does with
\* the iterator or the view, next() after exhaustion included.
C11_ClosedStep ==
    \A c \in Callers :
        (call[c].id # 0 /\ call[c].closed) =>
            ~Requests_(call[c].id, {"continue", "abort"})

C11_NothingAfterClose == [][C11_ClosedStep]_vars

ETIMEDOUT ==
    Raised("RpcException", RpcError("ETIMEDOUT", "Call timed out", None))

\* C12: a call_sync that gives up waiting with ready unset (no response,
\* error or fragment has arrived) invokes error_callback once with
\* RPC_CALL_TIMEOUT and raises ETIMEDOUT; the callback has been invoked once
\* for each call that timed out and never for another, and a call that timed
\* out never returns a result, whatever arrives later.
C12_TimeoutStep ==
    \A c \in Callers :
        (cpc[c] = "wait" /\ ~call[c].ready /\ cpc'[c] # "wait") =>
            /\ ret'[c] = ETIMEDOUT
            /\ errors' = errors (+) SetToBag({RPC_CALL_TIMEOUT(request[c])})

C12_Once ==
    \A c \in Callers :
        /\ request[c] # NoRequest =>
              CopiesIn(RPC_CALL_TIMEOUT(request[c]), errors) =
                  Cardinality({d \in Callers : /\ request[d] = request[c]
                                               /\ ret[d] = ETIMEDOUT})
        /\ ret[c] = ETIMEDOUT => cpc[c] = "raised"

C12_FinalStep ==
    \A c \in Callers : ret[c] = ETIMEDOUT => ret'[c] = ETIMEDOUT

C12_Timeout == []C12_Once /\ [][C12_TimeoutStep /\ C12_FinalStep]_vars

\* A call has timed out and its response has arrived afterwards, while
\* another call returned its result.
C12_Witness ==
    \E c, d \in Callers :
        /\ ret[c] = ETIMEDOUT
        /\ call[c].ready /\ call[c].result # JNone
        /\ ret[d].how = "returned"

\* C18: a ServerConnection sends an event to its peer if and only if, when
\* emit_event is called, a mask of its subscription set matches the name;
\* subscribed to server.* alone it sends server.started and not client.ping.
\* The names a mask stands for: itself, and for server.* the names that
\* begin with server and a dot.
C18_Matches(name, mask) ==
    \/ mask = name
    \/ mask = ServerAll /\ Len(name) >= 2 /\ name[1] = "server" /\ name[2] = "."

C18_EmitStep == Len(emitted') = Len(emitted) + 1

C18_Filtered ==
    LET e == emitted'[Len(emitted')]
        matched == \E mask \in event_masks : C18_Matches(e.ev.name, mask)
    IN /\ matched => events' = Append(events, EventFrame(e.ev)) /\ e.sent
       /\ ~matched => events' = events /\ ~e.sent
       /\ event_masks = {ServerAll} /\ e.ev.name = ServerStarted =>
              events' = Append(events, EventFrame(e.ev))
       /\ event_masks = {ServerAll} /\ e.ev.name = ClientPing =>
              events' = events

C19_InOrder ==
    \A h \in Handlers : \A i, j \in 1..Len(handled[h]) :
        i < j /\ handled[h][i].name = handled[h][j].name =>
            handled[h][i].n < handled[h][j].n

\* A handler is invoked only with events of the name it is registered for.
C19_OwnName ==
    \A h \in Handlers : \A i \in 1..Len(handled[h]) :
        h \in HandlersIn(event_handlers[handled[h][i].name])

\* An event that was received is one the event thread will dispatch.
C19_Dispatched == event_queue # <<>> => event_thread.state # "none"

C19_DeliveredOnceInOrder == C19_InOrder /\ C19_OwnName /\ C19_Dispatched

\* C20: in exec_and_wait_for_event a matching event that the peer emits
\* after fn() has started is never missed, it reaches the handler and ends
\* the wait; likewise in test_or_wait_for_event for an event after
\* initial_condition() was evaluated false.
\* Nothing is in flight or left to be done for any event emitted so far.
C20_Settled ==
    /\ subs = <<>> /\ events = <<>> /\ pool = {}
    /\ event_thread.state # "got"
    /\ event_queue = <<>> \/ event_thread.state = "none"

\* The peer emitted the event, and sent it, after fn() had started.
C20_EmittedLate ==
    \E i \in 1..Len(emitted) :
        emitted[i].late /\ emitted[i].sent /\ emitted[i].ev.name = WaitedEvent

C20_NeverMissed ==
    waiter.pc = "waiting" /\ C20_EmittedLate /\ C20_Settled => waiter.done

\* C21: on send, every FileDescriptor leaf of the args tree is replaced by
\* {"$fd": i} with i the position of that descriptor in the ancillary list
\* of the frame, so no two descriptors of one frame get the same index.
\* The indexes of the placeholders of a tree, in the order of the walk.
RECURSIVE C21_Indexes(_), C21_IndexesOf(_)
C21_IndexesOf(items) ==
    IF items = <<>> THEN <<>>
    ELSE C21_Indexes(Head(items)) \o C21_IndexesOf(Tail(items))
C21_Indexes(obj) ==
    IF obj.tag = "$fd" THEN <<obj.i>>
    ELSE IF obj.tag \in {"list", "dict"} THEN C21_IndexesOf(obj.l)
    ELSE <<>>

C21_IndexIsPosition ==
    packed.done =>
        /\ packed.fds = Descriptors(pack_args)
        /\ Descriptors(packed.obj) = <<>>
        /\ C21_Indexes(packed.obj) = [k \in 1..Len(packed.fds) |-> k - 1]

\* C22: collect_fds on the sender and replace_fds on the receiver, with the
\* ancillary list delivered in order, put at each position where the sender
\* had a FileDescriptor one on the same open file; a placeholder whose index
\* is not below the length of the ancillary list becomes None and the
\* message is still delivered.
\* The tree with None for every FileDescriptor.
RECURSIVE C22_Nulled(_), C22_NulledItems(_)
C22_NulledItems(items) ==
    IF items = <<>> THEN <<>>
    ELSE <<C22_Nulled(Head(items))>> \o C22_NulledItems(Tail(items))
C22_Nulled(obj) ==
    IF obj.tag = "FileDescriptor" THEN TNone
    ELSE IF obj.tag \in {"list", "dict"}
         THEN [obj EXCEPT !.l = C22_NulledItems(obj.l)]
         ELSE obj

C22_RoundTrip ==
    unpacked.done =>
        IF Len(unpacked.fds) = Len(packed.fds)
        THEN unpacked.obj = pack_args
        ELSE unpacked.obj = C22_Nulled(pack_args)

\* C23: each of login_user, login_service and login_token sends exactly one
\* auth frame, blocks until the peer has answered its PendingCall, raises the
\* peer's RpcException if the answer is an error, and on success stores the
\* returned token on the connection.
\* A login has ended: it was answered, and an error answer was raised.
C23_Ended ==
    \A c \in Callers :
        cpc[c] \in {"returned", "raised"} =>
            /\ call[c].ready
            /\ call[c].error # NoError => ret[c] = RpcException(call[c].error)
            /\ call[c].error = NoError => ret[c].how = "returned"

\* The step in which a login sends: one frame, of its own type.
C23_SendStep ==
    to_server' # to_server /\ Len(to_server') >= Len(to_server) =>
        \E c \in Callers :
            /\ cpc[c] = "idle" /\ cpc'[c] # "idle"
            /\ \A d \in Callers \ {c} : cpc'[d] = cpc[d]
            /\ to_server' = Append(to_server,
                    send_auth(AuthType(request[c].method), call'[c].id, request[c]))

\* The step in which a login returns: the token of its answer is stored.
C23_TokenStep ==
    \A c \in Callers :
        cpc[c] # "returned" /\ cpc'[c] = "returned" /\ call[c].error = NoError =>
            token' = call[c].result.l[1]

C23_Login == []C23_Ended /\ [][C23_SendStep /\ C23_TokenStep]_vars

\* C24: the server's connection list holds exactly the connections opened
\* and not yet closed; broadcast_event delegates the emission to each of
\* them, and each connection sends the event only if a mask of its own
\* subscription set matches.
\* The list holds the open connections, each once.
C24_Live ==
    /\ {connections[i] : i \in 1..Len(connections)} =
           {k \in Conns : conn_state[k] = "open"}
    /\ \A i, j \in 1..Len(connections) :
           connections[i] = connections[j] => i = j

\* When the loop has ended, every connection that was open from its start
\* to its end has been asked to emit.
C24_Delegated ==
    broadcast.pc = "idle" => broadcast.stable \subseteq broadcast.delegated

\* A connection sends in a step only the event being broadcast, and only if
\* one of its own masks matches.
C24_FilterStep ==
    \A k \in Conns :
        conn_sent'[k] # conn_sent[k] =>
            /\ conn_sent'[k] = Append(conn_sent[k], broadcast.name)
            /\ \E mask \in conn_masks[k] : C18_Matches(broadcast.name, mask)

C24_Broadcast == []C24_Live /\ []C24_Delegated /\ [][C24_FilterStep]_vars

\* C25: when call_queue_limit is set and the connection's count of
\* outstanding calls is at least the limit, an inbound call is answered with
\* an EBUSY error and not dispatched; when the count is below the limit, or
\* no limit is set, the call is dispatched.
\* The receive thread of the serving side handles a call in this step.
C25_CallStep == Request_("call") /\ to_server' = Tail(to_server)

C25_Busy == call_queue_limit # 0 /\ server_calls >= call_queue_limit

C25_EBusy(frames) ==
    \E i \in 1..Len(frames) :
        frames[i].name = "error" /\ frames[i].error.code = "EBUSY"

C25_Refused(id) == C25_EBusy(sent[id])

C25_Step ==
    C25_CallStep =>
        LET id == Head(to_server).id
        IN IF C25_Busy
           THEN /\ C25_EBusy(sent'[id])
                /\ Len(to_client') = Len(to_client) + 1
                /\ spawned'[id] = 0 /\ workers' = workers
           ELSE /\ spawned'[id] = 1
                /\ \E w \in workers' \ workers : w.id = id /\ w.type = "call"
                /\ to_client' = to_client

\* A refused call is never dispatched and gets nothing but the EBUSY error.
C25_NotDispatched ==
    \A id \in Ids : C25_Refused(id) => spawned[id] = 0 /\ Len(sent[id]) = 1

C26_Streams(w) ==
    /\ w \in workers /\ w.type = "call" /\ w.pc = "run"
    /\ w \notin workers'
    /\ dispatch_call(w.req, streaming).kind = "stream"

C26_TasksOf(id, tasks) == {t \in tasks : t.id = id}

C26_Step ==
    \A w \in workers :
        C26_Streams(w) =>
            LET id == w.id
                src == w.req.src
                new == SubSeq(sent'[id], Len(sent[id]) + 1, Len(sent'[id]))
            IN /\ id \in pending_iterators'
               /\ iterators'[id].view = w.req.view
               /\ IF src # <<>>
                  THEN /\ new = <<send_fragment(id, 1, JList(src[1]))>>
                       /\ iterators'[id].seqno = 1
                       /\ C26_TasksOf(id, workers') = {}
                  ELSE IF w.req.view
                  THEN /\ new = <<send_end(id, 1)>>
                       /\ C26_TasksOf(id, workers') = {}
                  ELSE /\ new = <<send_end(id, 1), send_close(id)>>
                       /\ C26_TasksOf(id, workers') = {[w EXCEPT !.pc = "del"]}

C26_Closed(id) ==
    \E i \in 1..Len(sent[id]) : sent[id][i].name = "close"

\* Once the task that sent close for a non-view call has ended, nothing is
\* registered under the id.
C26_Unregistered ==
    \A id \in Ids :
        C26_Closed(id) /\ ~iterators[id].view /\ C26_TasksOf(id, workers) = {}
            => id \notin pending_iterators

C26_FirstFragment == []C26_Unregistered /\ [][C26_Step]_vars

\* An empty lazy sequence of a non-view call was answered by end and close,
\* and its task has ended.
C26_Witness ==
    \E id \in Ids :
        /\ sent[id] = <<send_end(id, 1), send_close(id)>>
        /\ spawned[id] = 1
        /\ C26_TasksOf(id, workers) = {}
        /\ id \notin pending_iterators

\* C27: request_chunk(k), for 1 <= k <= n on an iterator over n values,
\* returns the k-th value of the source; the iterator's seqno never
\* decreases; a view iterator answers every seqno up to its current one from
\* the cache, with the value first emitted under that seqno.
\* The task of a continue runs request_chunk(w.seqno) in this step.
C27_Requests(w) ==
    /\ w \in workers /\ w.type = "continue" /\ w.pc = "run"
    /\ w \notin workers'
    /\ w.id \in pending_iterators

C27_Last(frames) == frames[Len(frames)]

C27_KthValue ==
    \A w \in workers :
        C27_Requests(w) /\ w.seqno <= Len(iterators[w.id].src) =>
            /\ Len(sent'[w.id]) = Len(sent[w.id]) + 1
            /\ C27_Last(sent'[w.id]) =
                   send_fragment(w.id, w.seqno,
                                 JList(iterators[w.id].src[w.seqno]))

C27_Monotonic ==
    \A id \in Ids : iterators'[id].seqno >= iterators[id].seqno

C27_FromCache ==
    \A w \in workers :
        C27_Requests(w) /\ iterators[w.id].view
                /\ w.seqno <= iterators[w.id].seqno =>
            /\ iterators'[w.id] = iterators[w.id]
            /\ Len(sent'[w.id]) = Len(sent[w.id]) + 1
            /\ C27_Last(sent'[w.id]) =
                   send_fragment(w.id, w.seqno,
                                 JList(iterators[w.id].src[w.seqno]))

C27_RequestChunk ==
    /\ [][C27_KthValue]_vars
    /\ [][C27_Monotonic]_vars
    /\ [][C27_FromCache]_vars

\* C28: continues for one call id processed concurrently on the worker pool
\* come out as if processed one at a time: every continue n is answered with
\* a fragment carrying the n-th source value, and no source value is
\* consumed without being returned or cached.
\* Every fragment sent for a continue carries the source value of its seqno.
C28_NthValue ==
    \A id \in Ids :
        \A i \in 2..Len(sent[id]) :
            LET f == sent[id][i]
                src == iterators[id].src
            IN f.name = "fragment" /\ f.seqno <= Len(src)
                   => f.args = JList(src[f.seqno])

C28_Quiet(id) ==
    /\ Pipelined(id) = MaxPipelined
    /\ to_server = <<>>
    /\ \A w \in workers : w.id # id
    /\ \A t \in chunk_tasks : t.id # id

\* When every continue has been served, each continue within the source has
\* its fragment.
C28_Answered ==
    \A id \in Ids :
        C28_Quiet(id) =>
            \A k \in 1..Len(continues[id]) :
                continues[id][k] <= Len(iterators[id].src) =>
                    \E i \in 2..Len(sent[id]) :
                        /\ sent[id][i].seqno = continues[id][k]
                        /\ sent[id][i].name = "fragment"

\* Every value taken from the source is in the cache or in a fragment sent.
C28_NoneLost ==
    \A id \in Ids :
        C28_Quiet(id) =>
            LET it == iterators[id]
            IN \A p \in 1..it.pos :
                   \/ p \in DOMAIN it.cache /\ it.cache[p] = it.src[p]
                   \/ \E i \in 1..Len(sent[id]) :
                          /\ sent[id][i].name = "fragment"
                          /\ sent[id][i].args = JList(it.src[p])

C28_Serialized == []C28_NthValue /\ []C28_Answered /\ []C28_NoneLost

\* C29: every insertion into, lookup in and removal from the pending-call
\* table happens while holding the connection lock, so no two threads ever
\* access the table at the same time.
\* A thread inside an access to the table holds rlock.
C29_Held ==
    \A t \in Threads : accessing[t] # "none" => rlock = t

\* At most one thread is inside an access to the table.
C29_Exclusive ==
    \A t, u \in Threads :
        accessing[t] # "none" /\ accessing[u] # "none" => t = u

C29_TableLocked == []C29_Held /\ []C29_Exclusive

\* C30: on every transport receive loop a frame header whose magic is not
\* 0xdeadbeef causes the connection to be closed without resynchronising:
\* after such a header no later bytes of the stream are interpreted as a
\* header or delivered to on_message.
\* The loop is left with the wrong header.
C30_Closes == rx.bad => rx.state # "running"

\* Nothing is read as a header or delivered after the wrong header.
C30_NoLater == rx.bad => rx.headers = 0 /\ rx.late = 0

C30_WrongMagicCloses == []C30_Closes /\ []C30_NoLater

\* C31: on connection close, for Client and for ServerConnection, the
\* event-delivery worker receives the termination sentinel and exits: after
\* on_close completes no event-delivery thread of the connection is still
\* running, and the events enqueued before the sentinel were dispatched first.
C31_Running == event_thread.state \in {"idle", "got"}

\* on_close has completed.
C31_Closed == closer.pc = "done"

C31_WorkerExits ==
    C31_Closed => ~C31_Running /\ event_queue = <<>>

\* The worker takes the sentinel only at the head of the queue, every event
\* queued before it having been taken and dispatched.
C31_SentinelLast ==
    \A i \in 1..Len(event_queue) :
        event_queue[i] = StopIterationItem => i = Len(event_queue)

C31_SentinelStops == []C31_WorkerExits /\ []C31_SentinelLast

\* C32: for a call_async the callback is invoked once per arriving message of
\* the call, in arrival order: with the value on response, with the fragment
\* on each fragment (a continue for the next seqno being sent exactly when the
\* callback returns a true value), with None on end and with an RpcException
\* on error; it is never invoked after the response or error that removed the
\* call.
\* The receive thread takes a frame off the connection.
C32_Arrives == to_client # <<>> /\ to_client' = Tail(to_client)

\* The caller whose call_async made the call with this id.
C32_Async(c, id) == callback[c] /\ call[c].id = id

\* What the callback is given for a frame.
C32_Arg(m) ==
    CASE m.name = "response" -> Returned(m.args)
      [] m.name = "fragment" -> Returned(m.args)
      [] m.name = "end" -> Returned(JNone)
      [] m.name = "error" -> RpcException(m.error)

C32_Invoked(c, m) ==
    /\ Len(invoked'[c]) = Len(invoked[c]) + 1
    /\ SubSeq(invoked'[c], 1, Len(invoked[c])) = invoked[c]
    /\ invoked'[c][Len(invoked'[c])].arg = C32_Arg(m)
    /\ m.name = "fragment" =>
        IF invoked'[c][Len(invoked'[c])].returned
        THEN to_server' = Append(to_server, send_continue(m.id, m.seqno + 1))
        ELSE to_server' = to_server

C32_Step ==
    \A c \in Callers :
        IF /\ C32_Arrives
           /\ C32_Async(c, Head(to_client).id)
           /\ Head(to_client).id \in DOMAIN pending_calls
           /\ Head(to_client).name \in {"response", "fragment", "end", "error"}
        THEN C32_Invoked(c, Head(to_client))
        ELSE invoked'[c] = invoked[c]

\* A call that is no longer pending saw a response or an error last.
C32_Removed ==
    \A c \in Callers :
        callback[c] /\ call[c].id \notin DOMAIN pending_calls =>
            /\ invoked[c] # <<>>
            /\ \/ invoked[c][Len(invoked[c])].arg.how = "RpcException"
               \/ call[c].result = invoked[c][Len(invoked[c])].arg.value

C32_Callback == [][C32_Step]_vars /\ []C32_Removed

\* A callback that was given two fragments, having returned a true value for
\* the first, and then None for the end.
C32_Witness ==
    \E c \in Callers :
        /\ Len(invoked[c]) >= 3
        /\ invoked[c][1].returned
        /\ invoked[c][1].arg.value.tag = "list"
        /\ invoked[c][Len(invoked[c])].arg = Returned(JNone)

\* A callback that returned a false value for a fragment: nothing more comes.
C32_WitnessStop ==
    \E c \in Callers :
        /\ invoked[c] # <<>>
        /\ ~invoked[c][Len(invoked[c])].returned
        /\ invoked[c][Len(invoked[c])].arg.value.tag = "list"
        /\ to_client = <<>> /\ to_server = <<>> /\ workers = {}

\* C33: an inbound message that is malformed JSON or lacks namespace or name
\* is reported through error_callback as INVALID_JSON_RESPONSE and does not
\* tear down the connection: the receive task keeps delivering later messages
\* and the pending-call, pending-iterator and subscription tables are
\* unchanged.
INVALID_JSON_RESPONSE == ClientError("INVALID_JSON_RESPONSE", 0, "", "")

\* on_message takes an invalid message.
C33_Taken ==
    /\ to_client # <<>>
    /\ Head(to_client).name \in Invalid
    /\ to_client' = Tail(to_client)

C33_Reported ==
    C33_Taken => errors' = errors (+) SetToBag({INVALID_JSON_RESPONSE})

C33_KeepsGoing ==
    C33_Taken =>
        /\ receive_thread' = "running"
        /\ transport' = transport
        /\ UNCHANGED <<pending_calls, pending_iterators, event_masks,
                       event_handlers>>

C33_InvalidReported == [][C33_Reported]_vars /\ [][C33_KeepsGoing]_vars

\* The connection is not torn down and the tables are untouched.
C33_KeptGoing == [][C33_KeepsGoing]_vars

\* C34: every end message sent for a streaming call carries seqno = count+1,
\* where count is the number of values the source iterator produced, and no
\* fragment is sent for that call after its end.
C34_Count ==
    \A id \in Ids :
        \A i \in 1..Len(NewFrames(id)) :
            NewFrames(id)[i].name = "end" =>
                NewFrames(id)[i].seqno = iterators'[id].pos + 1

C34_EndLast ==
    \A id \in Ids :
        \A i, j \in 1..Len(sent[id]) :
            sent[id][i].name = "end" /\ i < j => sent[id][j].name # "fragment"

C34_EndSeqno == [][C34_Count]_vars /\ []C34_EndLast

\* The first end of a call that is not a view does carry count+1.
C34_CountFirst ==
    \A id \in Ids :
        \A i \in 1..Len(NewFrames(id)) :
            /\ NewFrames(id)[i].name = "end"
            /\ ~iterators'[id].view
            /\ Frames(id, {"end"}) = <<>>
            => NewFrames(id)[i].seqno = iterators'[id].pos + 1

C34_FirstEndNonView == [][C34_CountFirst]_vars

\* C35: for a view-mode call the sender keeps the PendingIterator and every
\* emitted fragment in its cache until the receiver sends abort or the
\* connection closes, and releases them at that point: after the connection
\* has closed, no PendingIterator of that connection remains registered and
\* every source iterator has been closed.
\* The connection has closed and no task of it is still running.
C35_Released ==
    sender_closed /\ workers = {} =>
        /\ pending_iterators = {}
        /\ \A id \in Ids :
            iterators[id] # NoIterator =>
                iterators[id].state \in {"closed", "exhausted"}

\* Until then a view iterator that has not been aborted is registered with
\* every fragment it emitted in its cache.
C35_Kept ==
    \A id \in Ids :
        /\ iterators[id] # NoIterator
        /\ iterators[id].view
        /\ iterators[id].state # "closed"
        => /\ id \in pending_iterators
           /\ DOMAIN iterators[id].cache = 1..iterators[id].seqno

C35_ViewReleased == []C35_Kept /\ []C35_Released

\* C36: every caller blocked on a streaming call (in call_continue with
\* sync=True, in abort_call, or in StreamingResultIterator.__next__ waiting
\* for the next value) is eventually released when the connection closes; no
\* caller stays blocked forever on a call whose connection is gone.
C36_Blocked(c) ==
    cpc[c] \in {"continue_wait", "view_wait", "abort_wait", "get"}

C36_Gone == transport.link \in {"down", "stopped"}

C36_Release ==
    \A c \in Callers : (C36_Blocked(c) /\ C36_Gone) ~> ~C36_Blocked(c)

\* The connection is closed, its pending calls dropped, and whoever waited
\* on the condition variable of a call or on its queue still waits.
C36_Stuck ==
    /\ transport.link = "stopped"
    /\ ~dropping.active
    /\ pending_calls = <<>>
    /\ \E c \in Callers : C36_Blocked(c)
    /\ ~ENABLED NextStreamClose

\* C37: ServerConnection.on_close always terminates and reaches
\* drop_pending_calls, even when an event handler running on the
\* event-delivery worker is at that moment blocked in a call on the same
\* connection (call_sync with timeout=None): joining the event worker never
\* waits on a call that only drop_pending_calls could complete.
C37_Terminates == (closer.pc = "join") ~> (closer.pc = "done")

\* on_close is in the join, the worker in a handler that waits for a call
\* only drop_pending_calls can complete now.
C37_JoinWaitsOnCall ==
    /\ closer.pc = "join"
    /\ event_thread.state = "in_call"
    /\ ~call[HandlerCaller].ready
    /\ HandlerCaller \in {pending_calls[id] : id \in DOMAIN pending_calls}

C37_NeverWaitsOnCall == ~C37_JoinWaitsOnCall

C37_OnCloseTerminates == C37_Terminates /\ []C37_NeverWaitsOnCall

\* C38: when several threads perform view-mode lookups of different indices
\* on the same call concurrently and the peer answers every continue, every
\* lookup eventually returns: a fragment arrival never leaves a waiter
\* blocked whose requested seqno has been answered.
C38_Returns ==
    \A t \in Lookers : (lookers[t].pc = "wait") ~> (lookers[t].pc = "done")

\* Every continue has been answered and the answers taken, the fragment a
\* thread asked for is in the cache, and the thread waits with nobody left to
\* notify it.
C38_LeftBlocked ==
    /\ to_server = <<>> /\ to_client = <<>> /\ workers = {}
    /\ \A u \in Lookers : lookers[u].pc # "awake"
    /\ \E t \in Lookers :
        /\ lookers[t].pc = "wait"
        /\ lookers[t].seqno \in DOMAIN call[Viewed].cache

C38_NeverLeftBlocked == ~C38_LeftBlocked

C38_EveryLookupReturns == C38_Returns /\ []C38_NeverLeftBlocked

\* C39: a broadcast_event that runs concurrently with connections opening or
\* closing still delegates emission to every connection that is in the
\* server's connection list for the whole duration of the broadcast; removal
\* of one connection during the iteration never causes another live
\* connection to be skipped.
\* The for loop of broadcast_event ends in this step.
C39_LoopEnds == broadcast.pc = "for" /\ broadcast'.pc = "idle"

C39_NoneSkipped ==
    C39_LoopEnds =>
        \A k \in Conns :
            k \in broadcast.stable /\ conn_state'[k] = "open" =>
                k \in broadcast.delegated

C39_ConcurrentBroadcast == [][C39_NoneSkipped]_vars

\* C40: with call_queue_limit = N set on a connection, at most N inbound
\* calls of that connection are being dispatched (accepted but not yet
\* answered) at any time, regardless of how many outbound calls the
\* connection itself has pending.
\* The inbound calls that have a task and no answer yet.
C40_Dispatched == {w \in workers : w.type = "call"}

C40_AtMostLimit ==
    call_queue_limit # 0 => Cardinality(C40_Dispatched) <= call_queue_limit

C40_InboundLimit == []C40_AtMostLimit

====
